---- MODULE Spec2Model ----
(***************************************************************************)
(* State-machine model of the acquisition core of the data_collection      *)
(* package: the token-bucket RateLimiter (utils/rate_limiter.py), the      *)
(* two-tier CacheManager (utils/cache_manager.py), the DataCollector       *)
(* (services/data_collector.py) with its providers and its ErrorHandler    *)
(* (utils/error_handler.py), and the locks of the DataStore                *)
(* (services/data_store.py).                                               *)
(*                                                                         *)
(* Time is counted in ticks; one second is TicksPerSecond ticks, so that   *)
(* the truncation int(wait_time) of the code is visible in the model.      *)
(***************************************************************************)
EXTENDS Integers, Sequences, FiniteSets, TLC

VARIABLES
    now,                 \* the clock read by time.time(), in ticks
    \* ---- RateLimiter fields (rate_limiter.py:20-34)
    calls_per_minute,
    calls_per_day,       \* 0 stands for None (both are falsy in the code)
    burst_size,
    minute_bucket,
    day_bucket,
    last_minute_refill,
    last_day_refill,
    minute_calls,
    day_calls,
    \* ---- what the last limiter call did
    rl_op,               \* "init" | "acquire" | "release" | "tick"
    rl_result,           \* "none" | "ok" | "minute" | "day" | "AttributeError"
    retry_after,         \* seconds carried by the RateLimitError, -1 if none
    \* ---- one caller of wait_if_needed (rate_limiter.py:129-135)
    w_pc,                \* "idle" | "sleep" | "retry" | "done"
    w_attempts,
    w_sleeps,
    w_wake,
    w_outcome,           \* "none" | "returned" | "raised"
    w_last,              \* the result of the call's latest acquire()
    \* ---- history kept for the properties
    n_acquire,           \* acquire() calls made so far
    n_granted,           \* acquire() calls that succeeded so far
    n_advance,           \* clock advances made so far
    grant_log,           \* times of the successful acquires of the last 24 hours
    day_granted,         \* successful acquires since last_day_refill
    minute_fail_at,      \* time of the latest acquire if it failed on the minute
                         \* bucket; -1 otherwise
    since_fail           \* at an acquire: ticks since the preceding acquire, if that
                         \* one failed on the minute bucket; -1 otherwise

VARIABLES
    \* ---- CacheManager fields (cache_manager.py:30-49)
    memory_cache,        \* the TTLCache: entries [key, value, expires], least
                         \* recently used first
    memory_cache_size,   \* its maxsize
    disk_cache_dir,      \* TRUE when a disk tier is configured
    disk_files,          \* key -> the content of <key>.cache, or NoFile
    stats,
    \* ---- what the last cache call did
    c_op,                \* "init" | "get" | "set" | "delete" | "clear" | "tick"
    c_key,               \* its key; a fixed key when it had none
    c_result,            \* the value returned, "None", "ok" or "CacheError"
    c_error_op,          \* the cache_operation of the CacheError, "" if none
    c_faulted,           \* the disk failed during the call
    c_was_in_memory,     \* at a get: the key was live in the memory tier
    c_delta,             \* at a get: the counters the call incremented
    c_after_promotion,   \* at a get: the call before was a get of the same key
                         \* that was served from the disk tier
    \* ---- history kept for the properties
    written,             \* key -> the latest successful set, until it is
                         \* deleted or cleared; after a clear() that
                         \* returned, the mark of that clear
    n_cache_ops,
    n_cache_advance

VARIABLES
    \* ---- DataCollector fields (data_collector.py:21-24)
    collection_tasks,    \* task key -> the task registered under it, 0 if none
    tasks,               \* the polling tasks created so far
    collects,               \* the collect_data collects made so far
    session,             \* AlphaVantageClient.session is open
    batch,               \* the collect_batch_data call: its arguments, its
                         \* semaphore, its position and its result
    store,               \* the DataStore: its locks, its files and the calls
                         \* made on it
    \* ---- ErrorHandler fields (error_handler.py:19-20)
    error_counts,
    error_info,          \* what the last handle_error returned
    error_callbacks,     \* error type -> the callback registered, "none" if none
    n_handled,           \* handle_error calls made so far
    \* ---- what the last start, stop or cleanup did
    p_op,                \* "init" | "start" | "stop" | "cleanup"
    p_pair,              \* its <<provider_name, symbol>>
    p_result,            \* "ok" or the error raised
    p_before,            \* collection_tasks when the call began
    p_cancelled,         \* the tasks the call cancelled
    n_poll_ops

rlVars == <<now, calls_per_minute, calls_per_day, burst_size, minute_bucket,
            day_bucket, last_minute_refill, last_day_refill, minute_calls,
            day_calls, rl_op, rl_result, retry_after, w_pc, w_attempts, w_sleeps,
            w_wake, w_outcome, w_last, n_acquire, n_granted, n_advance,
            grant_log,
            day_granted, minute_fail_at, since_fail>>

cacheVars == <<memory_cache, memory_cache_size, disk_cache_dir, disk_files,
               stats, c_op, c_key,
               c_result, c_error_op, c_faulted, c_was_in_memory, c_delta,
               c_after_promotion, written, n_cache_ops, n_cache_advance>>

collVars == <<collection_tasks, tasks, collects, session, batch, store,
              error_counts, error_info, error_callbacks, n_handled, p_op,
              p_pair, p_result, p_before, p_cancelled, n_poll_ops>>

vars == <<rlVars, cacheVars, collVars>>

-----------------------------------------------------------------------------
(* Bounds of the model *)

TicksPerSecond == 2
MaxRate == 2
MaxDayCap == 2
MaxBurst == 1
MaxAcquire == 3
MaxAdvance == 2
MaxKeys == 2
MemoryCacheSize == 1
MaxCacheOps == 3
MaxCacheAdvance == 1
MaxTasks == 2
MaxPollOps == 2
MaxIterations == 2
MaxPollAdvance == 1
MaxCalls == 2
MaxStoreTasks == 2
MaxErrors == 3
MaxLruSize == 2
MaxLruOps == 4
MaxCallbacks == 1

(* Program constants *)

SecondsPerMinute == 60
SecondsPerDay == 24 * 3600
Inf == 999999999
MemoryTtl == 300

Minute == SecondsPerMinute * TicksPerSecond
Day == SecondsPerDay * TicksPerSecond

Min(a, b) == IF a <= b THEN a ELSE b
Max(a, b) == IF a >= b THEN a ELSE b

\* int(x) of a non-negative duration given in ticks: whole seconds, truncated
IntSeconds(ticks) == ticks \div TicksPerSecond

\* the clock advances the model takes
Steps == {1, Minute - 1, Day - 1}

-----------------------------------------------------------------------------
(* RateLimiter._refill and _cleanup_calls, as functions of the current state *)

\* faulty variant of NewTokens: the elapsed time divided by the wrong unit
NewTokensPerDay == ((now - last_minute_refill) * calls_per_minute) \div Day

\* new_tokens = int(elapsed_minutes * calls_per_minute)
NewTokens == ((now - last_minute_refill) * calls_per_minute) \div Minute

\* faulty variant of RefilledMinute: the refill is not capped at the burst size
RefilledMinuteUncapped ==
    IF NewTokens > 0 THEN minute_bucket + NewTokens ELSE minute_bucket

RefilledMinute ==
    IF NewTokens > 0 THEN Min(burst_size, minute_bucket + NewTokens)
                     ELSE minute_bucket

RefilledLastMinute == IF NewTokens > 0 THEN now ELSE last_minute_refill

DayResets == calls_per_day # 0 /\ (now - last_day_refill) >= Day

\* faulty variant of RefilledDay: the reset adds to what is left
RefilledDayAdded ==
    IF DayResets THEN day_bucket + calls_per_day ELSE day_bucket

RefilledDay == IF DayResets THEN calls_per_day ELSE day_bucket

RefilledLastDay == IF DayResets THEN now ELSE last_day_refill

RECURSIVE DropOlder(_, _)
DropOlder(calls, horizon) ==
    IF calls # <<>> /\ Head(calls) < horizon
    THEN DropOlder(Tail(calls), horizon)
    ELSE calls

CleanedMinuteCalls == DropOlder(minute_calls, now - Minute)

CleanedDayCalls ==
    IF calls_per_day # 0 THEN DropOlder(day_calls, now - Day) ELSE day_calls

\* _get_minute_wait_time / _get_day_wait_time, in ticks
MinuteWaitTime ==
    IF CleanedMinuteCalls = <<>> THEN 0
    ELSE Max(0, Minute - (now - Head(CleanedMinuteCalls)))

DayWaitTime ==
    IF calls_per_day = 0 \/ CleanedDayCalls = <<>> THEN 0
    ELSE Max(0, Day - (now - Head(CleanedDayCalls)))

\* faulty variant of AcquireOutcome: the minute bucket is not tested
AcquireOutcomeDayOnly == IF RefilledDay <= 0 THEN "day" ELSE "ok"

\* faulty variant of AcquireOutcome: the empty-bucket tests written with <
AcquireOutcomeStrict ==
    IF RefilledMinute < 0 THEN "minute"
    ELSE IF RefilledDay < 0 THEN "day"
    ELSE "ok"

\* the branch acquire() takes after the refill
AcquireOutcome ==
    IF RefilledMinute <= 0 THEN "minute"
    ELSE IF RefilledDay <= 0 THEN "day"
    ELSE "ok"

\* faulty variant of ConsumeDay: two day tokens are consumed
ConsumeDayTwice(b) == IF calls_per_day # 0 THEN b - 2 ELSE b

\* faulty variant of ConsumeDay: the day token is not consumed
ConsumeDayNever(b) == b

ConsumeDay(b) == IF calls_per_day # 0 THEN b - 1 ELSE b

\* the retry_after attached to the RateLimitError
AcquireRetryAfter ==
    CASE AcquireOutcome = "minute" -> IntSeconds(MinuteWaitTime)
      [] AcquireOutcome = "day" -> IntSeconds(DayWaitTime)
      [] OTHER -> -1

\* the entries of a log that are less than `window` ticks old at time t
Within(log, t, window) == SelectSeq(log, LAMBDA x : t - x < window)

\* one acquire() call, from `async with self._lock` to its return or raise
Acquire ==
    /\ minute_bucket' = IF AcquireOutcome = "ok" THEN RefilledMinute - 1
                                                ELSE RefilledMinute
    /\ day_bucket' = IF AcquireOutcome = "ok" THEN ConsumeDay(RefilledDay)
                                             ELSE RefilledDay
    /\ last_minute_refill' = RefilledLastMinute
    /\ last_day_refill' = RefilledLastDay
    /\ minute_calls' = IF AcquireOutcome = "ok"
                       THEN Append(CleanedMinuteCalls, now)
                       ELSE CleanedMinuteCalls
    /\ day_calls' = IF AcquireOutcome = "ok" /\ calls_per_day # 0
                    THEN Append(CleanedDayCalls, now)
                    ELSE CleanedDayCalls
    /\ rl_op' = "acquire"
    /\ rl_result' = AcquireOutcome
    /\ retry_after' = AcquireRetryAfter
    /\ n_acquire' = n_acquire + 1
    /\ n_granted' = IF AcquireOutcome = "ok" THEN n_granted + 1 ELSE n_granted
    /\ grant_log' = IF AcquireOutcome = "ok" THEN Append(grant_log, now)
                                            ELSE grant_log
    /\ day_granted' = (IF DayResets THEN 0 ELSE day_granted)
                      + (IF AcquireOutcome = "ok" THEN 1 ELSE 0)
    /\ since_fail' = IF minute_fail_at >= 0 THEN now - minute_fail_at ELSE -1
    /\ minute_fail_at' = IF AcquireOutcome = "minute" THEN now ELSE -1
    /\ UNCHANGED <<now, calls_per_minute, calls_per_day, burst_size, n_advance>>

-----------------------------------------------------------------------------
(* The limiter's operations *)

\* RateLimiter.__init__ at time 0, for every configuration within the bounds
RLInit ==
    /\ now = 0
    /\ calls_per_minute \in 1..MaxRate
    /\ calls_per_day \in 0..MaxDayCap
    /\ \E b \in 0..MaxBurst :
          burst_size = IF b # 0 THEN b ELSE calls_per_minute
    /\ minute_bucket = burst_size
    /\ day_bucket = IF calls_per_day # 0 THEN calls_per_day ELSE Inf
    /\ last_minute_refill = 0
    /\ last_day_refill = 0
    /\ minute_calls = <<>>
    /\ day_calls = <<>>
    /\ rl_op = "init"
    /\ rl_result = "none"
    /\ retry_after = -1
    /\ w_pc = "idle"
    /\ w_attempts = 0
    /\ w_sleeps = 0
    /\ w_wake = 0
    /\ w_outcome = "none"
    /\ w_last = "none"
    /\ n_acquire = 0
    /\ n_granted = 0
    /\ n_advance = 0
    /\ grant_log = <<>>
    /\ day_granted = 0
    /\ minute_fail_at = -1
    /\ since_fail = -1

wVars == <<w_pc, w_attempts, w_sleeps, w_wake, w_outcome, w_last>>

\* a direct acquire() call
AcquireCall ==
    /\ n_acquire < MaxAcquire
    /\ Acquire
    /\ UNCHANGED wVars
    /\ UNCHANGED <<cacheVars, collVars>>

\* rate_limiter.release(), as the provider clients call it in their finally
\* blocks: the class defines no such method, so the attribute lookup raises
Release ==
    /\ rl_op = "acquire"
    /\ rl_op' = "release"
    /\ rl_result' = "AttributeError"
    /\ retry_after' = -1
    /\ UNCHANGED <<now, calls_per_minute, calls_per_day, burst_size,
                   minute_bucket, day_bucket, last_minute_refill,
                   last_day_refill, minute_calls, day_calls, n_acquire,
                   n_granted, n_advance, grant_log, day_granted,
                   minute_fail_at, since_fail>>
    /\ UNCHANGED wVars
    /\ UNCHANGED <<cacheVars, collVars>>

\* the clock moves on by d ticks
Tick(d) ==
    /\ n_advance < MaxAdvance
    /\ now' = now + d
    /\ n_advance' = n_advance + 1
    /\ grant_log' = Within(grant_log, now + d, Day)
    /\ rl_op' = "tick"
    /\ UNCHANGED <<calls_per_minute, calls_per_day, burst_size, minute_bucket,
                   day_bucket, last_minute_refill, last_day_refill,
                   minute_calls, day_calls, rl_result, retry_after, n_acquire,
                   n_granted, day_granted, minute_fail_at, since_fail>>
    /\ UNCHANGED wVars
    /\ UNCHANGED <<cacheVars, collVars>>

\* faulty variant of AfterFailedRetry: a failed retry goes back to sleep
AfterFailedRetryLoop == "sleep"

\* where wait_if_needed goes when its second acquire() raises: the error
\* leaves the except block, the call is over
AfterFailedRetry == "done"

\* wait_if_needed: the first acquire()
W_Call ==
    /\ w_pc = "idle"
    /\ n_acquire + 1 < MaxAcquire
    /\ Acquire
    /\ w_attempts' = 1
    /\ w_sleeps' = 0
    /\ w_last' = AcquireOutcome
    /\ IF AcquireOutcome = "ok"
       THEN /\ w_pc' = "done"
            /\ w_outcome' = "returned"
            /\ w_wake' = w_wake
       ELSE /\ w_pc' = "sleep"
            /\ w_outcome' = "none"
            /\ w_wake' = now + AcquireRetryAfter * TicksPerSecond
    /\ UNCHANGED <<cacheVars, collVars>>

\* wait_if_needed: asyncio.sleep(e.retry_after) runs to its end
W_Sleep ==
    /\ w_pc = "sleep"
    /\ now' = Max(now, w_wake)
    /\ grant_log' = Within(grant_log, Max(now, w_wake), Day)
    /\ w_sleeps' = w_sleeps + 1
    /\ w_pc' = "retry"
    /\ rl_op' = "tick"
    /\ UNCHANGED <<calls_per_minute, calls_per_day, burst_size, minute_bucket,
                   day_bucket, last_minute_refill, last_day_refill,
                   minute_calls, day_calls, rl_result, retry_after, n_acquire,
                   n_granted, n_advance, day_granted, minute_fail_at,
                   since_fail, w_attempts, w_wake, w_outcome, w_last>>
    /\ UNCHANGED <<cacheVars, collVars>>

\* wait_if_needed: the second acquire(), outside any try
W_Retry ==
    /\ w_pc = "retry"
    /\ Acquire
    /\ w_attempts' = w_attempts + 1
    /\ w_pc' = IF AcquireOutcome = "ok" THEN "done" ELSE AfterFailedRetry
    /\ w_outcome' = IF AcquireOutcome = "ok" THEN "returned" ELSE "raised"
    /\ w_last' = AcquireOutcome
    /\ UNCHANGED <<w_sleeps, w_wake>>
    /\ UNCHANGED <<cacheVars, collVars>>

\* the caller takes the result of wait_if_needed
W_Return ==
    /\ w_pc = "done"
    /\ w_pc' = "idle"
    /\ w_attempts' = 0
    /\ w_sleeps' = 0
    /\ w_outcome' = "none"
    /\ w_last' = "none"
    /\ UNCHANGED <<now, calls_per_minute, calls_per_day, burst_size,
                   minute_bucket, day_bucket, last_minute_refill,
                   last_day_refill, minute_calls, day_calls, rl_op, rl_result,
                   retry_after, n_acquire, n_granted, n_advance, grant_log,
                   day_granted, minute_fail_at, since_fail, w_wake>>
    /\ UNCHANGED <<cacheVars, collVars>>

RLNext ==
    \/ AcquireCall
    \/ Release
    \/ \E d \in Steps : Tick(d)
    \/ W_Call
    \/ W_Sleep
    \/ W_Retry
    \/ W_Return

-----------------------------------------------------------------------------
(* CacheManager: the memory tier (cachetools.TTLCache) *)

Keys == 1..MaxKeys

\* the values handed to set(): plain JSON data, and data that holds a
\* datetime object
Values == {"json", "datetime"}

\* the ttl arguments of set(), in seconds; 0 stands for None (both falsy)
Ttls == {0, 1}

\* the clock advances the cache model takes
CacheSteps == {2 * TicksPerSecond, MemoryTtl * TicksPerSecond}

NoFile == [kind |-> "absent"]

NoWrite == [kind |-> "none"]

MemKeys(m) == {m[i].key : i \in DOMAIN m}

MemIndex(m, k) == CHOOSE i \in DOMAIN m : m[i].key = k

\* key in memory_cache: the entry is there and has not expired
MemLive(m, k) == \E i \in DOMAIN m : m[i].key = k /\ now < m[i].expires

\* TTLCache.expire: the expired entries are dropped
MemExpire(m) == SelectSeq(m, LAMBDA e : now < e.expires)

MemWithout(m, k) == SelectSeq(m, LAMBDA e : e.key # k)

\* Cache.__setitem__: least recently used entries are popped until the new
\* key fits
\* faulty variant of MemEvict: nothing is popped
MemEvictNever(m) == m

RECURSIVE MemEvict(_)
MemEvict(m) ==
    IF Len(m) + 1 > memory_cache_size /\ m # <<>> THEN MemEvict(Tail(m)) ELSE m

\* memory_cache[key] = value
MemSetItem(m, k, v) ==
    LET live == MemExpire(m)
        room == IF k \in MemKeys(live) THEN live ELSE MemEvict(live)
    IN  Append(MemWithout(room, k),
               [key |-> k, value |-> v,
                expires |-> now + MemoryTtl * TicksPerSecond])

\* memory_cache.get(key): the value, "None" when absent or expired
MemGet(m, k) == IF MemLive(m, k) THEN m[MemIndex(m, k)].value ELSE "None"

\* a hit moves the entry to the most recently used end
MemTouch(m, k) ==
    IF MemLive(m, k)
    THEN Append(MemWithout(m, k), m[MemIndex(m, k)])
    ELSE m

-----------------------------------------------------------------------------
(* CacheManager: the disk tier *)

\* json.dumps(value, cls=CustomJSONEncoder) followed by json.loads: a
\* datetime comes back as its ISO string
JsonRoundTrip(v) == IF v = "datetime" THEN "isostring" ELSE v

\* datetime.fromtimestamp(time.time()).strftime("%Y-%m-%d %H:%M:%S"): a
\* string, to the second
FormatTimestamp(t) ==
    [type |-> "str", at |-> (t \div TicksPerSecond) * TicksPerSecond]

\* the record _write_to_disk leaves in <key>.cache, as json.loads reads it
DiskRecord(v, ttl) ==
    [kind |-> "file", value |-> JsonRoundTrip(v),
     timestamp |-> FormatTimestamp(now), ttl |-> ttl]

\* _read_from_disk: the value returned ("None" for absent) and whether the
\* record is deleted.  `fault`: read_text or json.loads raises.
ReadFromDisk(k, fault) ==
    IF ~disk_cache_dir \/ disk_files[k] = NoFile
    THEN [value |-> "None", delete |-> FALSE]
    ELSE IF fault
    THEN [value |-> "None", delete |-> FALSE]        \* except Exception: None
    ELSE IF disk_files[k].ttl # 0
    THEN IF disk_files[k].timestamp.type = "str"
         \* time.time() - "<string>" raises TypeError; except Exception: None
         THEN [value |-> "None", delete |-> FALSE]
         ELSE IF now - disk_files[k].timestamp.at
                    > disk_files[k].ttl * TicksPerSecond
         THEN [value |-> "None", delete |-> TRUE]
         ELSE [value |-> disk_files[k].value, delete |-> FALSE]
    ELSE [value |-> disk_files[k].value, delete |-> FALSE]

\* faulty variant of Bump: the counter is raised by two
BumpTwice(st, field) == [st EXCEPT ![field] = @ + 2]

\* self.stats[field] += 1
Bump(st, field) == [st EXCEPT ![field] = @ + 1]

TtlElapsed(w) == w.ttl # 0 /\ now - w.at > w.ttl * TicksPerSecond

-----------------------------------------------------------------------------
(* CacheManager: the operations                                           *)
(*                                                                         *)
(* No call of the cache suspends: what it awaits are coroutines that do     *)
(* blocking file I/O (read_text, write_text, unlink) and an asyncio.Lock    *)
(* that is never held across a suspension, so it is never contended.  The   *)
(* event loop therefore runs each call from its first line to its return    *)
(* before any other task runs, and each call is one step of the model.      *)

\* what c_key holds when the last call had no key argument: a fixed key
NoKey(keys) == CHOOSE k \in keys : TRUE

\* CacheManager.__init__(memory_cache_size) of a cache whose keys are taken
\* from `keys`, for every memory_cache_size in `sizes`
CacheInitSized(keys, sizes) ==
    /\ memory_cache = <<>>
    /\ memory_cache_size \in sizes
    /\ disk_cache_dir \in BOOLEAN
    /\ disk_files = [k \in keys |-> NoFile]
    /\ stats = [memory_hits |-> 0, memory_misses |-> 0,
                disk_hits |-> 0, disk_misses |-> 0]
    /\ c_op = "init"
    /\ c_key = NoKey(keys)
    /\ c_result = "None"
    /\ c_error_op = ""
    /\ c_faulted = FALSE
    /\ c_was_in_memory = FALSE
    /\ c_delta = {}
    /\ c_after_promotion = FALSE
    /\ written = [k \in keys |-> NoWrite]
    /\ n_cache_ops = 0
    /\ n_cache_advance = 0

CacheInitOver(keys) == CacheInitSized(keys, {MemoryCacheSize})

CacheInit == CacheInitOver(Keys)

\* get(key), from its first line to its return; `fault`: the disk read fails
CacheGet(k, fault) ==
    LET disk == ReadFromDisk(k, fault)
        promoted == c_op = "get" /\ c_key = k
                    /\ "disk_hits" \in c_delta
    IN
    /\ c_op' = "get"
    /\ c_key' = k
    /\ c_error_op' = ""
    /\ c_was_in_memory' = MemLive(memory_cache, k)
    /\ c_after_promotion' = promoted
    /\ IF MemGet(memory_cache, k) # "None"
       THEN /\ stats' = Bump(stats, "memory_hits")
            /\ memory_cache' = MemTouch(memory_cache, k)
            /\ c_result' = MemGet(memory_cache, k)
            /\ c_delta' = {"memory_hits"}
            /\ c_faulted' = FALSE
            /\ fault = FALSE
            /\ UNCHANGED disk_files
       ELSE IF ~disk_cache_dir
       THEN /\ stats' = Bump(stats, "memory_misses")
            /\ c_result' = "None"
            /\ c_delta' = {"memory_misses"}
            /\ c_faulted' = FALSE
            /\ fault = FALSE
            /\ UNCHANGED <<memory_cache, disk_files>>
       ELSE /\ c_faulted' = (fault /\ disk_files[k] # NoFile)
            /\ (fault => disk_files[k] # NoFile)
            /\ c_result' = disk.value
            /\ disk_files' = IF disk.delete
                             THEN [disk_files EXCEPT ![k] = NoFile]
                             ELSE disk_files
            /\ IF disk.value # "None"
               THEN /\ stats' = Bump(Bump(stats, "memory_misses"), "disk_hits")
                    /\ memory_cache' = MemSetItem(memory_cache, k, disk.value)
                    /\ c_delta' = {"memory_misses", "disk_hits"}
               ELSE /\ stats' = Bump(Bump(stats, "memory_misses"), "disk_misses")
                    /\ c_delta' = {"memory_misses", "disk_misses"}
                    /\ UNCHANGED memory_cache
    /\ UNCHANGED <<memory_cache_size, disk_cache_dir, written>>

\* set(key, value, ttl), from `async with self._lock` to its return or raise;
\* `fault`: json.dumps or write_text raises
CacheSet(k, v, ttl, fault) ==
    /\ (fault => disk_cache_dir)
    /\ c_op' = "set"
    /\ c_key' = k
    /\ c_faulted' = fault
    /\ c_was_in_memory' = FALSE
    /\ c_delta' = {}
    /\ c_after_promotion' = FALSE
    /\ memory_cache' = MemSetItem(memory_cache, k, v)
    /\ IF fault
       THEN /\ c_result' = "CacheError"
            /\ c_error_op' = "set"
            /\ written' = [written EXCEPT ![k] = NoWrite]
            /\ UNCHANGED disk_files
       ELSE /\ c_result' = "ok"
            /\ c_error_op' = ""
            /\ written' = [written EXCEPT
                             ![k] = [kind |-> "set", value |-> v,
                                     at |-> now, ttl |-> ttl]]
            /\ disk_files' = IF disk_cache_dir
                             THEN [disk_files EXCEPT ![k] = DiskRecord(v, ttl)]
                             ELSE disk_files
    /\ UNCHANGED <<memory_cache_size, disk_cache_dir, stats>>

\* delete(key); `fault`: unlink raises
CacheDelete(k, fault) ==
    /\ (fault => disk_cache_dir /\ disk_files[k] # NoFile)
    /\ c_op' = "delete"
    /\ c_key' = k
    /\ c_faulted' = fault
    /\ c_was_in_memory' = FALSE
    /\ c_delta' = {}
    /\ c_after_promotion' = FALSE
    /\ memory_cache' = MemWithout(memory_cache, k)
    /\ written' = [written EXCEPT ![k] = NoWrite]
    /\ IF fault
       THEN /\ c_result' = "CacheError"
            /\ c_error_op' = "delete"
            /\ UNCHANGED disk_files
       ELSE /\ c_result' = "ok"
            /\ c_error_op' = ""
            /\ disk_files' = IF disk_cache_dir
                             THEN [disk_files EXCEPT ![k] = NoFile]
                             ELSE disk_files
    /\ UNCHANGED <<memory_cache_size, disk_cache_dir, stats>>

\* faulty variant of ClearedMemory: only the expired entries are dropped
ClearedMemoryLive(m) == MemExpire(m)

\* self.memory_cache.clear()
ClearedMemory(m) == <<>>

\* what `written` records for a key when clear() has returned: whether the
\* key was in a tier when the clear began
Cleared(k) ==
    [kind |-> "cleared",
     held |-> k \in MemKeys(memory_cache) \/ disk_files[k] # NoFile]

\* clear(), from `async with self._lock` to its return or raise; `kept`: the
\* files still there when an unlink raises (empty when the disk does not
\* fail)
CacheClear(kept) ==
    /\ kept \subseteq {k \in DOMAIN disk_files : disk_files[k] # NoFile}
    /\ (kept # {} => disk_cache_dir)
    /\ c_op' = "clear"
    /\ c_key' = NoKey(DOMAIN disk_files)
    /\ c_faulted' = (kept # {})
    /\ c_was_in_memory' = FALSE
    /\ c_delta' = {}
    /\ c_after_promotion' = FALSE
    /\ memory_cache' = ClearedMemory(memory_cache)
    /\ written' = [k \in DOMAIN disk_files |->
                      IF kept = {} THEN Cleared(k) ELSE NoWrite]
    /\ disk_files' = IF disk_cache_dir
                     THEN [k \in DOMAIN disk_files |->
                              IF k \in kept THEN disk_files[k] ELSE NoFile]
                     ELSE disk_files
    /\ c_result' = IF kept # {} THEN "CacheError" ELSE "ok"
    /\ c_error_op' = IF kept # {} THEN "clear" ELSE ""
    /\ UNCHANGED <<memory_cache_size, disk_cache_dir, stats>>

\* one more call of the cache on its own
CacheCall ==
    /\ n_cache_ops < MaxCacheOps
    /\ n_cache_ops' = n_cache_ops + 1
    /\ UNCHANGED n_cache_advance
    /\ UNCHANGED <<rlVars, collVars>>

Get(k, fault) == CacheCall /\ CacheGet(k, fault)

Set(k, v, ttl, fault) == CacheCall /\ CacheSet(k, v, ttl, fault)

Delete(k, fault) == CacheCall /\ CacheDelete(k, fault)

Clear(kept) == CacheCall /\ CacheClear(kept)

\* the clock moves on by d ticks
CacheTick(d) ==
    /\ n_cache_advance < MaxCacheAdvance
    /\ n_cache_advance' = n_cache_advance + 1
    /\ now' = now + d
    /\ c_op' = "tick"
    /\ UNCHANGED <<memory_cache, memory_cache_size, disk_cache_dir, disk_files,
                   stats, c_key,
                   c_result, c_error_op, c_faulted, c_was_in_memory, c_delta,
                   c_after_promotion, written, n_cache_ops>>
    /\ UNCHANGED <<calls_per_minute, calls_per_day, burst_size, minute_bucket,
                   day_bucket, last_minute_refill, last_day_refill,
                   minute_calls, day_calls, rl_op, rl_result, retry_after,
                   w_pc, w_attempts, w_sleeps, w_wake, w_outcome, w_last,
                   n_acquire, n_granted, n_advance, grant_log, day_granted,
                   minute_fail_at, since_fail>>
    /\ UNCHANGED collVars

CacheNext ==
    \/ \E k \in Keys, fault \in BOOLEAN : Get(k, fault)
    \/ \E k \in Keys, v \in Values, ttl \in Ttls, fault \in BOOLEAN :
          Set(k, v, ttl, fault)
    \/ \E k \in Keys, fault \in BOOLEAN : Delete(k, fault)
    \/ \E kept \in SUBSET Keys : Clear(kept)
    \/ \E d \in CacheSteps : CacheTick(d)

-----------------------------------------------------------------------------
(* CacheManager: a cache of up to MaxLruSize memory entries that is offered  *)
(* one key more than it can hold                                            *)

LruKeys == 1..(MaxLruSize + 1)

LruSizes == 1..MaxLruSize

\* one more call of this cache
LruCall ==
    /\ n_cache_ops < MaxLruOps
    /\ n_cache_ops' = n_cache_ops + 1
    /\ UNCHANGED n_cache_advance
    /\ UNCHANGED <<rlVars, collVars>>

LruGet(k) == LruCall /\ CacheGet(k, FALSE)

\* set(key, value): ttl is left at its default, None
LruSet(k) == LruCall /\ CacheSet(k, "json", 0, FALSE)

LruNext ==
    \/ \E k \in LruKeys : LruGet(k)
    \/ \E k \in LruKeys : LruSet(k)
    \/ \E d \in CacheSteps : CacheTick(d)

-----------------------------------------------------------------------------
(* DataCollector: names, keys and providers *)

\* A name is the list of the words that "_" separates in it: "yahoo_finance"
\* is <<"yahoo", "finance">>.  f"{a}_{b}" is then the concatenation.
Join(a, b) == a \o b

YahooFinance == <<"yahoo", "finance">>

AlphaVantage == <<"alpha", "vantage">>

\* self.providers: the two clients main.py registers and one further
\* implementation of the DataProvider interface
providers ==
    (YahooFinance :> "YahooFinanceClient")
    @@ (AlphaVantage :> "AlphaVantageClient")
    @@ (<<"yahoo">> :> "DataProvider")

\* the provider_name and symbol arguments the callers pass
ProviderNames == DOMAIN providers \cup {<<"iex">>}

Symbols == {<<"X">>, <<"finance", "X">>}

\* the <<provider_name, symbol>> pairs polled: a pair of each kind of
\* provider, and two pairs whose names join to the same string
PollPairs == {<<YahooFinance, <<"X">>>>, <<<<"yahoo">>, <<"finance", "X">>>>,
              <<AlphaVantage, <<"X">>>>, <<<<"iex">>, <<"X">>>>}

\* the <<provider_name, symbol>> pairs collect_data is called with
CollectPairs == PollPairs

Dates == {<<"2024-12-01">>}

\* task_key = f"{provider_name}_{symbol}"
TaskKey(provider_name, symbol) == Join(provider_name, symbol)

TaskKeys == {TaskKey(p, s) : p \in ProviderNames, s \in Symbols}

\* cache_key = f"{provider_name}_{symbol}_{start_date}_{end_date}"
CacheKey(provider_name, symbol, start_date, end_date) ==
    Join(Join(Join(provider_name, symbol), start_date), end_date)

\* cache_key = f"realtime_{task_key}_{datetime.now().timestamp()}"
RealtimeKey(task_key, t) == Join(Join(<<"realtime">>, task_key), <<ToString(t)>>)

\* the default polling interval, in seconds
PollInterval == 60

\* the keys the collector can hand to its cache within the bounds
CollectorKeys ==
    {CacheKey(p, s, a, b) :
        p \in ProviderNames, s \in Symbols, a \in Dates, b \in Dates}
    \cup {RealtimeKey(k, i * PollInterval * TicksPerSecond) :
            k \in TaskKeys, i \in 0..MaxPollAdvance}

\* the limiter of AlphaVantageClient: RateLimiter(calls_per_minute=5,
\* calls_per_day=500)
ClientCallsPerMinute == 5

ClientCallsPerDay == 500

-----------------------------------------------------------------------------
(* ErrorHandler.handle_error *)

ErrorTypes == {"DataCollectionError", "APIError", "RateLimitError",
               "ValidationError", "CacheError", "AttributeError"}

\* the isinstance chain of handle_error, in its order: RateLimitError is a
\* subclass of APIError and is taken by the first test
Category(error_type) ==
    IF error_type \in {"APIError", "RateLimitError"} THEN "api_error"
    ELSE IF error_type = "ValidationError" THEN "validation_error"
    ELSE "generic_error"

\* what the handler of each category adds to error_info
Attached(error_type) ==
    CASE Category(error_type) = "api_error" -> {"status_code", "response"}
      [] Category(error_type) = "validation_error" -> {"validation_errors"}
      [] OTHER -> {}

\* what a callback was handed: the category of the record and the count
\* of its error type at that moment
NoSight == [category |-> "none", count |-> 0]

NoErrorInfo ==
    [error_type |-> "none", category |-> "none", attached |-> {},
     context |-> <<>>, original_error |-> "none",
     callback |-> "none", invoked |-> 0, callback_saw |-> NoSight]

\* the callbacks register_callback is given: a coroutine function that
\* returns, one that raises an Exception, and a plain function (the
\* annotated type), whose result None cannot be awaited
Callbacks == {"coroutine", "failing", "plain"}

\* faulty variant of Counted: the occurrence is not counted
CountedNever(counts, error_type) == counts

\* faulty variant of Counted: the occurrence is counted twice
CountedTwice(counts, error_type) == [counts EXCEPT ![error_type] = @ + 2]

\* self.error_counts[error_type] = self.error_counts.get(error_type, 0) + 1
Counted(counts, error_type) == [counts EXCEPT ![error_type] = @ + 1]

\* faulty variant of ExecuteCallbacks: no callback is looked up
ExecuteCallbacksNever(error_type, info, counts) == info

\* _execute_callbacks(error_type, error_info), run when the counts are
\* `counts`: the callback registered for the type is awaited once with the
\* record; what it raises, and the TypeError of awaiting None, is logged
ExecuteCallbacks(error_type, info, counts) ==
    IF error_callbacks[error_type] = "none" THEN info
    ELSE [info EXCEPT
            !.callback = IF error_callbacks[error_type] = "coroutine"
                         THEN "returned" ELSE "raised",
            !.invoked = info.invoked + 1,
            !.callback_saw = [category |-> info.category,
                              count |-> counts[error_type]]]

\* handle_error(error, context): the occurrence is counted, then the
\* handler of its category and the callback run; when the handler of the
\* category raises (`internal`), the except block returns an
\* ErrorHandlerError record instead.  Either way handle_error returns and
\* raises nothing.
HandleError(error_type, context) ==
    /\ error_counts' = Counted(error_counts, error_type)
    /\ n_handled' = n_handled + 1
    /\ UNCHANGED error_callbacks
    /\ \E internal \in BOOLEAN :
          error_info' =
             IF internal
             THEN [NoErrorInfo EXCEPT !.error_type = "ErrorHandlerError",
                                      !.original_error = error_type]
             ELSE ExecuteCallbacks(
                     error_type,
                     [NoErrorInfo EXCEPT !.error_type = error_type,
                                         !.category = Category(error_type),
                                         !.attached = Attached(error_type),
                                         !.context = context],
                     error_counts')

\* sum(self.error_counts.values()), over the types of `types`
RECURSIVE SumCounts(_, _)
SumCounts(counts, types) ==
    IF types = {} THEN 0
    ELSE LET e == CHOOSE x \in types : TRUE
         IN counts[e] + SumCounts(counts, types \ {e})

\* total_errors of get_error_stats()
TotalErrors == SumCounts(error_counts, ErrorTypes)

-----------------------------------------------------------------------------
(* DataCollector: real-time polling                                        *)
(*                                                                         *)
(* A polling task is suspended where its coroutine awaits something that   *)
(* takes time: the provider's get_real_time_data and asyncio.sleep.         *)
(* task.cancel() makes the event loop throw CancelledError into the task at *)
(* the await it is suspended on; CancelledError is not an Exception, so     *)
(* neither `except Exception` of the loop nor that of the provider catches  *)
(* it.                                                                      *)

Tasks == 1..MaxTasks

NoTask ==
    [pc |-> "none", provider |-> <<>>, symbol |-> <<>>, must_cancel |-> FALSE,
     wake |-> 0, iterations |-> 0, aborted |-> FALSE, last |-> "none"]

Calls == 1..MaxCalls

NoCall ==
    [pc |-> "idle", symbol |-> <<>>, provider |-> <<>>,
     start_date |-> <<>>, end_date |-> <<>>, use_cache |-> FALSE,
     cache_key |-> <<>>, held |-> "None", get_faulted |-> FALSE, resolved |-> FALSE,
     acquired |-> "none", requested |-> 0, validated |-> "none",
     transforms |-> 0, stores |-> 0, result |-> "none", message |-> "",
     value |-> "None", changed |-> FALSE]

NoBatch ==
    [pc |-> "idle", symbols |-> <<>>, provider |-> <<>>, start_date |-> <<>>,
     end_date |-> <<>>, max_concurrent |-> 0, semaphore |-> 0, inside |-> {},
     peak |-> 0, finished |-> <<>>, processed_results |-> <<>>,
     raised |-> "none"]

CollectorInit ==
    /\ collection_tasks = [k \in TaskKeys |-> 0]
    /\ tasks = [t \in Tasks |-> NoTask]
    /\ collects = [c \in Calls |-> NoCall]
    /\ error_counts = [e \in ErrorTypes |-> 0]
    /\ error_info = NoErrorInfo
    /\ error_callbacks = [e \in ErrorTypes |-> "none"]
    /\ n_handled = 0
    /\ batch = NoBatch
    /\ p_op = "init"
    /\ p_pair = <<>>
    /\ p_result = "none"
    /\ p_before = collection_tasks
    /\ p_cancelled = {}
    /\ n_poll_ops = 0

\* get_active_collections()
GetActiveCollections == {k \in TaskKeys : collection_tasks[k] # 0}

\* the tasks in the registry
Registered == {collection_tasks[k] : k \in GetActiveCollections}

\* faulty variant of AlreadyRunning: the registry is not consulted
AlreadyRunningNever(task_key) == FALSE

\* task_key in self.collection_tasks
AlreadyRunning(task_key) == collection_tasks[task_key] # 0

\* faulty variant of Cancelled: no task is cancelled
CancelledNone(ts, ids) == ts

\* task.cancel() on each task of `ids`
Cancelled(ts, ids) ==
    [t \in DOMAIN ts |->
        IF t \in ids /\ ts[t].pc # "done"
        THEN [ts[t] EXCEPT !.must_cancel = TRUE]
        ELSE ts[t]]

\* the variables a polling step leaves alone
limiterVars == <<calls_per_minute, calls_per_day, burst_size, minute_bucket,
                 day_bucket, last_minute_refill, last_day_refill,
                 minute_calls, day_calls, rl_op, rl_result, retry_after,
                 w_pc, w_attempts, w_sleeps, w_wake, w_outcome, w_last,
                 n_acquire, n_granted, grant_log, day_granted,
                 minute_fail_at, since_fail>>

cacheCore == <<memory_cache, memory_cache_size, disk_cache_dir, disk_files,
              stats, c_op, c_key,
               c_result, c_error_op, c_faulted, c_was_in_memory, c_delta,
               c_after_promotion, written>>

cacheCount == <<n_cache_ops, n_cache_advance>>

pVars == <<p_op, p_pair, p_result, p_before, p_cancelled, n_poll_ops>>

\* start_real_time_collection(symbol, provider_name)
StartRealTimeCollection(symbol, provider_name) ==
    LET task_key == TaskKey(provider_name, symbol) IN
    /\ n_poll_ops < MaxPollOps
    /\ n_poll_ops' = n_poll_ops + 1
    /\ p_op' = "start"
    /\ p_pair' = <<provider_name, symbol>>
    /\ p_before' = collection_tasks
    /\ p_cancelled' = {}
    /\ IF AlreadyRunning(task_key)
       THEN /\ HandleError("DataCollectionError",
                            [symbol |-> symbol, provider |-> provider_name,
                             interval |-> PollInterval])
            /\ p_result' = "DataCollectionError"
            /\ UNCHANGED <<collection_tasks, tasks>>
       ELSE \E t \in Tasks :
            /\ tasks[t].pc = "none"
            /\ \A u \in Tasks : u < t => tasks[u].pc # "none"
            /\ tasks' = [tasks EXCEPT
                           ![t] = [NoTask EXCEPT !.pc = "new",
                                                 !.provider = provider_name,
                                                 !.symbol = symbol]]
            /\ collection_tasks' = [collection_tasks EXCEPT ![task_key] = t]
            /\ p_result' = "ok"
            /\ UNCHANGED <<error_counts, error_info, error_callbacks, n_handled>>
    /\ UNCHANGED <<collects, session, batch, store>>
    /\ UNCHANGED <<now, n_advance, limiterVars, cacheCore, cacheCount>>

\* stop_real_time_collection(symbol, provider_name)
StopRealTimeCollection(symbol, provider_name) ==
    LET task_key == TaskKey(provider_name, symbol) IN
    /\ n_poll_ops < MaxPollOps
    /\ n_poll_ops' = n_poll_ops + 1
    /\ p_op' = "stop"
    /\ p_pair' = <<provider_name, symbol>>
    /\ p_before' = collection_tasks
    /\ p_result' = "ok"
    /\ IF task_key \in GetActiveCollections
       THEN /\ tasks' = Cancelled(tasks, {collection_tasks[task_key]})
            /\ collection_tasks' = [collection_tasks EXCEPT ![task_key] = 0]
            /\ p_cancelled' = {collection_tasks[task_key]}
       ELSE /\ p_cancelled' = {}
            /\ UNCHANGED <<collection_tasks, tasks>>
    /\ UNCHANGED <<collects, session, batch, store, error_counts, error_info, error_callbacks, n_handled>>
    /\ UNCHANGED <<now, n_advance, limiterVars, cacheCore, cacheCount>>

\* cleanup(); `kept`: the cache files still there when clear() raises
Cleanup(kept) ==
    /\ n_poll_ops < MaxPollOps
    /\ n_poll_ops' = n_poll_ops + 1
    /\ p_op' = "cleanup"
    /\ p_pair' = <<>>
    /\ p_before' = collection_tasks
    /\ p_cancelled' = Registered
    /\ tasks' = Cancelled(tasks, Registered)
    /\ collection_tasks' = [k \in TaskKeys |-> 0]
    /\ CacheClear(kept)
    /\ p_result' = IF kept # {} THEN "CacheError" ELSE "ok"
    /\ UNCHANGED <<collects, session, batch, store, error_counts, error_info, error_callbacks, n_handled>>
    /\ UNCHANGED <<now, n_advance, limiterVars, cacheCount>>

\* faulty variant of Resolve: an unknown name gets the Yahoo client
ResolveDefault(provider_name) ==
    IF provider_name \in DOMAIN providers THEN providers[provider_name]
                                         ELSE "YahooFinanceClient"

\* self.providers.get(provider_name)
Resolve(provider_name) ==
    IF provider_name \in DOMAIN providers THEN providers[provider_name]
                                         ELSE "None"

\* getattr(provider, "get_real_time_data"): AlphaVantageClient defines no
\* such method
HasRealTimeData(kind) == kind # "AlphaVantageClient"

\* what get_real_time_data returns: the Yahoo client puts datetime.now()
\* in it
RealTimeData(kind) == IF kind = "YahooFinanceClient" THEN "datetime" ELSE "json"

\* faulty variant of AfterIterationFailure: the failure ends the loop
AfterIterationFailureEnd == "done"

\* where the loop is after `except Exception`: in asyncio.sleep(interval)
AfterIterationFailure == "sleep"

\* faulty variant of Runnable: the loop goes on after a cancel(), as it
\* would if its `except Exception` caught the CancelledError
RunnableAlways(task) == TRUE

\* the coroutine of the task is resumed normally at its await: no cancel()
\* is pending for it
Runnable(task) == ~task.must_cancel

\* faulty variant of Wake: the sleep takes no time
WakeAtOnce == now

\* asyncio.sleep(interval): when the sleep that begins now is over
Wake == now + PollInterval * TicksPerSecond

\* the task after an iteration that failed
Failed(task) ==
    [task EXCEPT !.pc = AfterIterationFailure,
                 !.wake = Wake,
                 !.last = "error"]

\* collection_loop: the task starts, or its sleep is over, and an iteration
\* runs up to the await of get_real_time_data
T_Iterate(t) ==
    LET task == tasks[t] IN
    /\ task.pc \in {"new", "sleep"}
    /\ task.pc = "sleep" => now >= task.wake
    /\ Runnable(task)
    /\ task.iterations < MaxIterations
    /\ tasks' = [tasks EXCEPT ![t] =
          IF Resolve(task.provider) # "None"
             /\ HasRealTimeData(Resolve(task.provider))
          THEN [task EXCEPT !.pc = "fetch", !.iterations = @ + 1]
          ELSE Failed([task EXCEPT !.iterations = @ + 1])]
    /\ UNCHANGED <<collection_tasks, collects, session, batch, store, error_counts, error_info, error_callbacks, n_handled>>
    /\ UNCHANGED pVars
    /\ UNCHANGED <<now, n_advance, limiterVars, cacheCore, cacheCount>>

\* collection_loop: get_real_time_data is over; `outcome`: it returned or
\* raised; `fault`: the disk write of cache_manager.set raises
T_FetchDone(t, outcome, fault) ==
    LET task == tasks[t]
        task_key == TaskKey(task.provider, task.symbol)
    IN
    /\ task.pc = "fetch"
    /\ Runnable(task)
    /\ IF outcome = "ok"
       THEN /\ CacheSet(RealtimeKey(task_key, now),
                        RealTimeData(Resolve(task.provider)),
                        PollInterval * 2, fault)
            /\ tasks' = [tasks EXCEPT ![t] =
                  IF fault
                  THEN Failed(task)
                  ELSE [task EXCEPT !.pc = "sleep",
                                    !.wake = Wake,
                                    !.last = "ok"]]
       ELSE /\ fault = FALSE
            /\ tasks' = [tasks EXCEPT ![t] = Failed(task)]
            /\ UNCHANGED cacheCore
    /\ UNCHANGED <<collection_tasks, collects, session, batch, store, error_counts, error_info, error_callbacks, n_handled>>
    /\ UNCHANGED pVars
    /\ UNCHANGED <<now, n_advance, limiterVars, cacheCount>>

\* the event loop throws CancelledError into a cancelled task: the
\* coroutine ends where it was suspended
T_Cancelled(t) ==
    /\ tasks[t].pc \in {"new", "fetch", "sleep"}
    /\ tasks[t].must_cancel
    /\ tasks' = [tasks EXCEPT ![t] = [@ EXCEPT !.pc = "done",
                                               !.aborted = tasks[t].pc = "fetch"]]
    /\ UNCHANGED <<collection_tasks, collects, session, batch, store, error_counts, error_info, error_callbacks, n_handled>>
    /\ UNCHANGED pVars
    /\ UNCHANGED <<now, n_advance, limiterVars, cacheCore, cacheCount>>

\* the clock moves on by one polling interval
PollTick ==
    /\ n_advance < MaxPollAdvance
    /\ n_advance' = n_advance + 1
    /\ now' = now + PollInterval * TicksPerSecond
    /\ UNCHANGED <<limiterVars, cacheCore, cacheCount, collVars>>

PollNext ==
    \/ \E pair \in PollPairs : StartRealTimeCollection(pair[2], pair[1])
    \/ \E pair \in PollPairs : StopRealTimeCollection(pair[2], pair[1])
    \/ \E kept \in SUBSET {k \in CollectorKeys : disk_files[k] # NoFile} :
          Cleanup(kept)
    \/ \E t \in Tasks : T_Iterate(t)
    \/ \E t \in Tasks, outcome \in {"ok", "error"}, fault \in BOOLEAN :
          T_FetchDone(t, outcome, fault)
    \/ \E t \in Tasks : T_Cancelled(t)
    \/ PollTick

\* the limiter AlphaVantageClient.__init__ builds, after `used` calls
ClientLimiterInit(used) ==
    /\ now = 0
    /\ calls_per_minute = ClientCallsPerMinute
    /\ calls_per_day = ClientCallsPerDay
    /\ burst_size = ClientCallsPerMinute
    /\ minute_bucket = ClientCallsPerMinute - used
    /\ day_bucket = ClientCallsPerDay - used
    /\ last_minute_refill = 0
    /\ last_day_refill = 0
    /\ minute_calls = [i \in 1..used |-> 0]
    /\ day_calls = [i \in 1..used |-> 0]
    /\ rl_op = "init"
    /\ rl_result = "none"
    /\ retry_after = -1
    /\ w_pc = "idle"
    /\ w_attempts = 0
    /\ w_sleeps = 0
    /\ w_wake = 0
    /\ w_outcome = "none"
    /\ w_last = "none"
    /\ n_acquire = used
    /\ n_granted = used
    /\ n_advance = 0
    /\ grant_log = [i \in 1..used |-> 0]
    /\ day_granted = used
    /\ minute_fail_at = -1
    /\ since_fail = -1

-----------------------------------------------------------------------------
(* DataCollector: collect_data                                             *)
(*                                                                         *)
(* A collect_data call is suspended only while the provider's fetch_data   *)
(* waits for the remote service; what comes before it (cache lookup,       *)
(* provider lookup, the limiter of the Alpha Vantage client) and after it  *)
(* (validation, transformation, cache store, error handling) runs without  *)
(* suspension.                                                             *)

\* the values a provider's transform_data returns: a record that holds a
\* datetime (both clients), plain data, and an empty dict
Transformed == {"datetime", "json", "empty"}

\* faulty variant of Truthy: whatever the lookup gave is taken for a hit
TruthyAlways(v) == TRUE

\* `if cached_data:`
Truthy(v) == v \notin {"None", "empty"}

\* the value the cache holds for each key, as a reader gets it
ContentsOf(m, files) ==
    [k \in DOMAIN files |->
        IF MemLive(m, k) THEN JsonRoundTrip(MemGet(m, k))
        ELSE IF files[k] # NoFile THEN files[k].value
        ELSE "None"]

\* the context collect_data hands to handle_error
Context(call) ==
    [symbol |-> call.symbol, provider |-> call.provider,
     start_date |-> call.start_date, end_date |-> call.end_date]

\* the call ends by raising `error_type`: except Exception, handle_error,
\* raise
Raised(call, error_type, message) ==
    [call EXCEPT !.pc = "done", !.result = error_type, !.message = message]

\* collect_data(symbol, provider_name, start_date, end_date, use_cache) up
\* to the await of the remote service in fetch_data, or to its end when it
\* does not get there; `fault`: the disk read of cache_manager.get fails
CD_Call(c, symbol, provider_name, start_date, end_date, use_cache, fault) ==
    LET cache_key == CacheKey(provider_name, symbol, start_date, end_date)
        call == [NoCall EXCEPT
                   !.symbol = symbol, !.provider = provider_name,
                   !.start_date = start_date, !.end_date = end_date,
                   !.use_cache = use_cache,
                   !.cache_key = cache_key,
                   !.held = IF written[cache_key].kind = "set"
                            THEN written[cache_key].value ELSE "None"]
        provider == Resolve(provider_name)
    IN
    /\ collects[c].pc = "idle"
    /\ \A d \in Calls : d < c => collects[d].pc # "idle"
    /\ IF use_cache
       THEN CacheGet(cache_key, fault)
       ELSE fault = FALSE /\ UNCHANGED cacheCore
    /\ LET looked == [call EXCEPT
                        !.get_faulted = use_cache /\ c_faulted',
                        !.changed = ContentsOf(memory_cache', disk_files')
                                    # ContentsOf(memory_cache, disk_files)]
       IN
       IF use_cache /\ Truthy(c_result')
       THEN /\ collects' = [collects EXCEPT
                           ![c] = [looked EXCEPT !.pc = "done",
                                                 !.result = "hit",
                                                 !.value = c_result']]
            /\ UNCHANGED <<limiterVars, error_counts, error_info, error_callbacks, n_handled>>
       ELSE IF provider = "None"
       THEN /\ collects' = [collects EXCEPT
                           ![c] = Raised([looked EXCEPT !.resolved = TRUE],
                                         "DataCollectionError",
                                         "Unknown provider")]
            /\ HandleError("DataCollectionError", Context(call))
            /\ UNCHANGED limiterVars
       ELSE IF provider = "AlphaVantageClient"
       \* fetch_data: rate_limiter.acquire(), the session test, and in the
       \* finally block rate_limiter.release(), which raises AttributeError
       THEN /\ Acquire
            /\ UNCHANGED <<w_pc, w_attempts, w_sleeps, w_wake, w_outcome,
                           w_last>>
            /\ IF AcquireOutcome = "ok" /\ session
               THEN /\ collects' = [collects EXCEPT
                                   ![c] = [looked EXCEPT !.pc = "fetch",
                                                         !.resolved = TRUE,
                                                         !.acquired = "ok",
                                                         !.requested = 1]]
                    /\ UNCHANGED <<error_counts, error_info, error_callbacks, n_handled>>
               ELSE /\ collects' = [collects EXCEPT
                                   ![c] = Raised(
                                      [looked EXCEPT
                                         !.resolved = TRUE,
                                         !.acquired =
                                             IF AcquireOutcome = "ok"
                                             THEN "ok" ELSE "RateLimitError"],
                                      "AttributeError", "release")]
                    /\ HandleError("AttributeError", Context(call))
       ELSE /\ collects' = [collects EXCEPT
                           ![c] = [looked EXCEPT !.pc = "fetch",
                                                 !.resolved = TRUE,
                                                 !.requested = 1]]
            /\ UNCHANGED <<limiterVars, error_counts, error_info, error_callbacks, n_handled>>
    /\ UNCHANGED <<collection_tasks, tasks, session, store>>
    /\ UNCHANGED pVars
    /\ UNCHANGED <<now, n_advance, cacheCount>>

\* the outcomes of the remote request, as fetch_data reports them: the
\* Yahoo client turns every failure into an APIError
FetchOutcomes(kind) ==
    IF kind = "YahooFinanceClient" THEN {"ok", "APIError"}
    ELSE IF kind = "AlphaVantageClient" THEN {"ok"}
    ELSE {"ok", "APIError", "RateLimitError"}

\* what validate_response can say of the data fetch_data returned: the
\* record the Yahoo client builds is not empty and has no "error" key
Validations(kind) ==
    IF kind = "DataProvider" THEN BOOLEAN ELSE {TRUE}

\* what transform_data can return
Transformations(kind) ==
    IF kind = "DataProvider" THEN {"json", "empty"} ELSE {"datetime"}

\* collect_data from the end of the remote request to its return or raise;
\* `outcome`: what fetch_data reports, `valid`: what validate_response
\* says, `out`: what transform_data returns, `fault`: the disk write of
\* cache_manager.set raises
CD_FetchDone(c, outcome, valid, out, fault) ==
    LET call == collects[c]
        kind == Resolve(call.provider)
        cache_key == CacheKey(call.provider, call.symbol,
                              call.start_date, call.end_date)
        stores == outcome = "ok" /\ valid /\ call.use_cache
                  /\ kind # "AlphaVantageClient"
    IN
    /\ call.pc = "fetch"
    /\ outcome \in FetchOutcomes(kind)
    /\ valid \in Validations(kind)
    /\ out \in Transformations(kind)
    /\ IF stores
       THEN CacheSet(cache_key, out, 0, fault)
       ELSE fault = FALSE /\ UNCHANGED cacheCore
    /\ LET changed == call.changed
                      \/ ContentsOf(memory_cache', disk_files')
                         # ContentsOf(memory_cache, disk_files)
       IN
       IF kind = "AlphaVantageClient"
       \* whatever the request gave, the finally block raises
       THEN /\ collects' = [collects EXCEPT
                           ![c] = Raised(call, "AttributeError", "release")]
            /\ HandleError("AttributeError", Context(call))
       ELSE IF outcome # "ok"
       THEN /\ collects' = [collects EXCEPT ![c] = Raised(call, outcome, "fetch")]
            /\ HandleError(outcome, Context(call))
       ELSE IF ~valid
       THEN /\ collects' = [collects EXCEPT
                           ![c] = Raised([call EXCEPT !.validated = "false"],
                                         "DataCollectionError",
                                         "Invalid response from provider")]
            /\ HandleError("DataCollectionError", Context(call))
       ELSE IF stores /\ fault
       THEN /\ collects' = [collects EXCEPT
                           ![c] = Raised([call EXCEPT !.validated = "true",
                                                      !.transforms = 1,
                                                      !.stores = 1,
                                                      !.changed = changed],
                                         "CacheError", "set")]
            /\ HandleError("CacheError", Context(call))
       ELSE /\ collects' = [collects EXCEPT
                           ![c] = [call EXCEPT
                                     !.pc = "done",
                                     !.validated = "true",
                                     !.transforms = 1,
                                     !.stores = IF stores THEN 1 ELSE 0,
                                     !.changed = changed,
                                     !.result = "ok",
                                     !.value = out]]
            /\ UNCHANGED <<error_counts, error_info, error_callbacks, n_handled>>
    /\ UNCHANGED <<collection_tasks, tasks, session, store>>
    /\ UNCHANGED pVars
    /\ UNCHANGED <<now, n_advance, limiterVars, cacheCount>>

CollectNext ==
    \/ \E c \in Calls, pair \in CollectPairs, a \in Dates, b \in Dates,
          use_cache \in BOOLEAN, fault \in BOOLEAN :
          CD_Call(c, pair[2], pair[1], a, b, use_cache, fault)
          /\ UNCHANGED batch
    \/ \E c \in Calls, outcome \in {"ok", "APIError", "RateLimitError"},
          valid \in BOOLEAN, out \in Transformed, fault \in BOOLEAN :
          CD_FetchDone(c, outcome, valid, out, fault) /\ UNCHANGED batch

-----------------------------------------------------------------------------
(* DataCollector: collect_batch_data                                       *)
(*                                                                         *)
(* The call creates one task per symbol; task i is the collect_data call i *)
(* inside `async with semaphore`.  The event loop starts the tasks in the  *)
(* order of their creation; a task is suspended while the semaphore is     *)
(* locked and while its fetch_data waits for the remote service.           *)

\* the symbol lists a batch is called with, the empty list and repeated
\* symbols included
BatchLists == UNION {[1..n -> Symbols] : n \in 0..MaxCalls}

\* the values of max_concurrent asyncio.Semaphore takes: a negative one
\* raises ValueError, 0 makes a semaphore without a permit
MaxConcurrents == 0..MaxCalls

\* faulty variant of SemaphoreLocked: the semaphore never blocks
SemaphoreLockedNever(b) == FALSE

\* asyncio.Semaphore.locked(): no permit is left
SemaphoreLocked(b) == b.semaphore <= 0

\* faulty variant of ReturnExceptions: gather raises the first exception
ReturnExceptionsOff == FALSE

\* asyncio.gather(*tasks, return_exceptions=True)
ReturnExceptions == TRUE

\* faulty variant of Gathered: gather returns with the first task that ends
GatheredFirst(b, cs) ==
    \E i \in 1..Len(b.symbols) : cs[i].pc = "done"

\* gather has the result of every task
Gathered(b, cs) ==
    \A i \in 1..Len(b.symbols) : cs[i].pc = "done"

\* isinstance(result, Exception), for the result gather holds of a call
IsException(call) == call.result \in ErrorTypes

\* the entry of processed_results for a result
Entry(symbol, call) ==
    IF IsException(call)
    THEN [symbol |-> symbol, success |-> FALSE, error |-> call.result,
          data |-> "None"]
    ELSE [symbol |-> symbol, success |-> TRUE, error |-> "none",
          data |-> call.value]

\* d[key] = entry on a dict: a key already there keeps its place
DictSet(d, entry) ==
    IF \E j \in 1..Len(d) : d[j].symbol = entry.symbol
    THEN [j \in 1..Len(d) |->
             IF d[j].symbol = entry.symbol THEN entry ELSE d[j]]
    ELSE Append(d, entry)

\* for symbol, result in zip(symbols, results), from position i on
RECURSIVE ProcessResults(_, _, _, _)
ProcessResults(symbols, cs, i, d) ==
    IF i > Len(symbols) THEN d
    ELSE ProcessResults(symbols, cs, i + 1,
                        DictSet(d, Entry(symbols[i], cs[i])))

\* the awaiting batch after task i ended: with return_exceptions the
\* exception is a result like any other
AfterTask(b, i, call) ==
    LET ended == [b EXCEPT !.finished = Append(@, i)] IN
    IF ~ReturnExceptions /\ IsException(call) /\ b.raised = "none"
    THEN [ended EXCEPT !.raised = call.result]
    ELSE ended

\* collect_batch_data(symbols, provider_name, start_date, end_date,
\* max_concurrent) up to the await of gather
CollectBatchData(symbols, provider_name, start_date, end_date, max_concurrent) ==
    /\ batch.pc = "idle"
    /\ batch' = [NoBatch EXCEPT !.pc = "gather",
                                !.symbols = symbols,
                                !.provider = provider_name,
                                !.start_date = start_date,
                                !.end_date = end_date,
                                !.max_concurrent = max_concurrent,
                                !.semaphore = max_concurrent]
    /\ UNCHANGED <<collection_tasks, tasks, collects, session, store, error_counts,
                   error_info, error_callbacks, n_handled>>
    /\ UNCHANGED pVars
    /\ UNCHANGED <<now, n_advance, limiterVars, cacheCore, cacheCount>>

\* collect_with_semaphore(symbols[i]): the task takes a permit and runs
\* collect_data up to the await of the remote service; when the call ends
\* before that (cache hit, or an error) the permit is given back at once
B_Enter(i, fault) ==
    /\ batch.pc = "gather"
    /\ batch.raised = "none"
    /\ i \in 1..Len(batch.symbols)
    /\ ~SemaphoreLocked(batch)
    /\ CD_Call(i, batch.symbols[i], batch.provider, batch.start_date,
               batch.end_date, TRUE, fault)
    /\ batch' =
          LET entered == [batch EXCEPT
                            !.peak = Max(@, Cardinality(batch.inside) + 1)]
          IN
          IF collects'[i].pc = "fetch"
          THEN [entered EXCEPT !.semaphore = @ - 1, !.inside = @ \cup {i}]
          ELSE AfterTask(entered, i, collects'[i])

\* the fetch of task i is over: collect_data runs to its end and the
\* permit is given back
B_FetchDone(i, outcome, valid, out, fault) ==
    /\ batch.pc = "gather"
    /\ i \in batch.inside
    /\ CD_FetchDone(i, outcome, valid, out, fault)
    /\ batch' = AfterTask([batch EXCEPT !.semaphore = @ + 1,
                                        !.inside = @ \ {i}],
                          i, collects'[i])

\* gather is over: the results are processed and the call returns, or the
\* exception gather raised is handled and raised
B_Return ==
    /\ batch.pc = "gather"
    /\ batch.raised # "none" \/ Gathered(batch, collects)
    /\ IF batch.raised # "none"
       THEN /\ batch' = [batch EXCEPT !.pc = "done"]
            /\ HandleError(batch.raised,
                           [symbols |-> batch.symbols,
                            provider |-> batch.provider,
                            start_date |-> batch.start_date,
                            end_date |-> batch.end_date])
       ELSE /\ batch' = [batch EXCEPT
                            !.pc = "done",
                            !.processed_results =
                                ProcessResults(batch.symbols, collects, 1,
                                               <<>>)]
            /\ UNCHANGED <<error_counts, error_info, error_callbacks, n_handled>>
    /\ UNCHANGED <<collection_tasks, tasks, collects, session, store>>
    /\ UNCHANGED pVars
    /\ UNCHANGED <<now, n_advance, limiterVars, cacheCore, cacheCount>>

BatchNext ==
    \/ \E symbols \in BatchLists, p \in ProviderNames, a \in Dates,
          b \in Dates, max_concurrent \in MaxConcurrents :
          CollectBatchData(symbols, p, a, b, max_concurrent)
    \/ \E i \in Calls, fault \in BOOLEAN : B_Enter(i, fault)
    \/ \E i \in Calls, outcome \in {"ok", "APIError", "RateLimitError"},
          valid \in BOOLEAN, out \in Transformed, fault \in BOOLEAN :
          B_FetchDone(i, outcome, valid, out, fault)
    \/ B_Return

-----------------------------------------------------------------------------
(* DataStore: the per-symbol locks                                         *)
(*                                                                         *)
(* A file of the store is <<symbol, provider, name>>, for the path         *)
(* base_path/symbol/provider/name.json.  A call is suspended while it      *)
(* waits for a lock and, inside the lock, while aiofiles reads or writes;  *)
(* delete_market_data awaits nothing inside its lock.                      *)

StoreTasks == 1..MaxStoreTasks

StoreSymbols == {<<"X">>, <<"Y">>}

StoreProvider == <<"yahoo">>

\* timestamp = datetime.now().strftime("%Y%m%d_%H%M%S")
Timestamp == <<"20241201", "120000">>

\* storage_key = f"{symbol}_{provider}_{timestamp}"
StorageKey(symbol, provider, timestamp) ==
    Join(Join(symbol, provider), timestamp)

\* a file that store_market_data did not write, named without "_"
ForeignFile == <<<<"X">>, StoreProvider, <<"T">>>>

\* the keys update_market_data and delete_market_data are called with:
\* those store_market_data returns, and those of the foreign file
StorageKeys ==
    {StorageKey(symbol, StoreProvider, Timestamp) : symbol \in StoreSymbols}
    \cup {StorageKey(symbol, StoreProvider, <<"T">>) : symbol \in StoreSymbols}

NoStoreCall ==
    [op |-> "none", pc |-> "idle", symbol |-> <<>>, file |-> <<>>,
     result |-> "none"]

\* DataStore.__init__ over a directory that holds `files`
StoreInit(files) ==
    store = [locks |-> [symbol \in StoreSymbols |->
                           [created |-> FALSE, holder |-> 0]],
             files |-> files,
             calls |-> [t \in StoreTasks |-> NoStoreCall]]

\* symbol, provider, timestamp = storage_key.split('_'): the unpacking
\* raises ValueError unless the key has exactly three parts
Splits(storage_key) == Len(storage_key) = 3

\* faulty variant of Locked: the lock is never seen held
LockedNever(locks, symbol) == FALSE

\* lock.locked(), for lock = self._get_lock(symbol)
Locked(locks, symbol) == locks[symbol].holder # 0

\* self._get_lock(symbol), then the lock taken by task t
Taken(locks, symbol, t) ==
    [locks EXCEPT ![symbol] = [created |-> TRUE, holder |-> t]]

\* self._get_lock(symbol) alone: the lock is created on first use
GetLock(locks, symbol) == [locks EXCEPT ![symbol].created = TRUE]

\* the lock given back at the end of `async with lock`
Released(locks, symbol) == [locks EXCEPT ![symbol].holder = 0]

\* the call of task t ends
Ended(call, result) == [call EXCEPT !.pc = "done", !.result = result]

\* delete_market_data inside its lock: unlink, with no await
Unlinked(st, t) ==
    LET call == st.calls[t] IN
    IF call.file \in st.files
    THEN [st EXCEPT !.files = @ \ {call.file},
                    !.locks = Released(@, call.symbol),
                    !.calls[t] = Ended(call, "True")]
    ELSE [st EXCEPT !.locks = Released(@, call.symbol),
                    !.calls[t] = Ended(call, "DataStorageError")]

\* `async with lock` reached by a call: into the write section when the
\* lock is free, else into the wait for it
Entered(st, t, call) ==
    IF Locked(st.locks, call.symbol)
    THEN [st EXCEPT !.locks = GetLock(@, call.symbol),
                    !.calls[t] = [call EXCEPT !.pc = "wait"]]
    ELSE LET in == [st EXCEPT !.locks = Taken(@, call.symbol, t),
                              !.calls[t] = [call EXCEPT !.pc = "write"]]
         IN IF call.op = "delete" THEN Unlinked(in, t) ELSE in

storeFrame == <<now, n_advance, limiterVars, cacheCore, cacheCount,
                collection_tasks, tasks, collects, session, batch,
                error_counts, error_info, error_callbacks, n_handled, pVars>>

\* store_market_data(data, symbol, provider) up to its first suspension
StoreMarketData(t, symbol) ==
    /\ store.calls[t].pc = "idle"
    /\ store' = Entered(store, t,
                        [NoStoreCall EXCEPT
                           !.op = "store", !.symbol = symbol,
                           !.file = <<symbol, StoreProvider, Timestamp>>])
    /\ UNCHANGED storeFrame

\* update_market_data(storage_key, updates) up to its first suspension
UpdateMarketData(t, storage_key) ==
    LET symbol == <<storage_key[1]>>
        file == <<symbol, <<storage_key[2]>>, <<storage_key[3]>>>>
        call == [NoStoreCall EXCEPT !.op = "update", !.symbol = symbol,
                                    !.file = file]
    IN
    /\ store.calls[t].pc = "idle"
    /\ store' =
          IF ~Splits(storage_key)
          THEN [store EXCEPT
                  !.calls[t] = Ended([NoStoreCall EXCEPT !.op = "update"],
                                     "DataStorageError")]
          ELSE IF file \notin store.files
          THEN [store EXCEPT !.calls[t] = Ended(call, "DataStorageError")]
          ELSE Entered(store, t, call)
    /\ UNCHANGED storeFrame

\* delete_market_data(storage_key) up to its first suspension
DeleteMarketData(t, storage_key) ==
    LET symbol == <<storage_key[1]>>
        file == <<symbol, <<storage_key[2]>>, <<storage_key[3]>>>>
        call == [NoStoreCall EXCEPT !.op = "delete", !.symbol = symbol,
                                    !.file = file]
    IN
    /\ store.calls[t].pc = "idle"
    /\ store' =
          IF ~Splits(storage_key)
          THEN [store EXCEPT
                  !.calls[t] = Ended([NoStoreCall EXCEPT !.op = "delete"],
                                     "DataStorageError")]
          ELSE IF file \notin store.files
          THEN [store EXCEPT !.calls[t] = Ended(call, "False")]
          ELSE Entered(store, t, call)
    /\ UNCHANGED storeFrame

\* cleanup_old_data(): `timedelta` is not imported by the module, and the
\* NameError of the cutoff computation ends the call before any lock
CleanupOldData(t) ==
    /\ store.calls[t].pc = "idle"
    /\ store' = [store EXCEPT
                   !.calls[t] = Ended([NoStoreCall EXCEPT !.op = "cleanup"],
                                      "DataStorageError")]
    /\ UNCHANGED storeFrame

\* a call that waits for its lock gets it
S_Acquire(t) ==
    LET call == store.calls[t] IN
    /\ call.pc = "wait"
    /\ ~Locked(store.locks, call.symbol)
    /\ store' = Entered(store, t, call)
    /\ UNCHANGED storeFrame

\* the reads and writes of a call inside its lock are over; `fault`: one
\* of them raised
S_Written(t, fault) ==
    LET call == store.calls[t]
        left == [store EXCEPT !.locks = Released(@, call.symbol)]
    IN
    /\ call.pc = "write"
    /\ store' =
          IF fault \/ (call.op = "update" /\ call.file \notin store.files)
          THEN [left EXCEPT !.calls[t] = Ended(call, "DataStorageError")]
          ELSE IF call.op = "store"
          THEN [left EXCEPT !.files = @ \cup {call.file},
                            !.calls[t] = Ended(call, "storage_key")]
          ELSE [left EXCEPT !.calls[t] = Ended(call, "True")]
    /\ UNCHANGED storeFrame

StoreNext ==
    \/ \E t \in StoreTasks, symbol \in StoreSymbols :
          StoreMarketData(t, symbol)
    \/ \E t \in StoreTasks, storage_key \in StorageKeys :
          UpdateMarketData(t, storage_key)
    \/ \E t \in StoreTasks, storage_key \in StorageKeys :
          DeleteMarketData(t, storage_key)
    \/ \E t \in StoreTasks : CleanupOldData(t)
    \/ \E t \in StoreTasks : S_Acquire(t)
    \/ \E t \in StoreTasks, fault \in BOOLEAN : S_Written(t, fault)

-----------------------------------------------------------------------------
(* ErrorHandler: direct calls *)

\* handle_error(error) called with an error of type `error_type` and no
\* context
HandleErrorCall(error_type) ==
    /\ n_handled < MaxErrors
    /\ HandleError(error_type, <<>>)
    /\ UNCHANGED <<collection_tasks, tasks, collects, session, batch, store>>
    /\ UNCHANGED pVars
    /\ UNCHANGED <<now, n_advance, limiterVars, cacheCore, cacheCount>>

\* the error types a callback is registered for
WithCallback == {e \in ErrorTypes : error_callbacks[e] # "none"}

\* register_callback(error_type, callback)
RegisterCallback(error_type, callback) ==
    /\ Cardinality(WithCallback \cup {error_type}) <= MaxCallbacks
    /\ error_callbacks' = [error_callbacks EXCEPT ![error_type] = callback]
    /\ UNCHANGED <<collection_tasks, tasks, collects, session, batch, store,
                   error_counts, error_info, n_handled>>
    /\ UNCHANGED pVars
    /\ UNCHANGED <<now, n_advance, limiterVars, cacheCore, cacheCount>>

\* self.error_counts.clear(): a type that is not in the dict counts zero
ClearedCounts(counts) == [e \in DOMAIN counts |-> 0]

\* clear_error_counts()
ClearErrorCounts ==
    /\ error_counts' = ClearedCounts(error_counts)
    /\ UNCHANGED <<collection_tasks, tasks, collects, session, batch, store,
                   error_info, error_callbacks, n_handled>>
    /\ UNCHANGED pVars
    /\ UNCHANGED <<now, n_advance, limiterVars, cacheCore, cacheCount>>

\* get_error_stats(), without its timestamp
GetErrorStats ==
    [error_counts |-> error_counts, total_errors |-> TotalErrors]

ErrorNext ==
    \/ \E error_type \in ErrorTypes : HandleErrorCall(error_type)
    \/ \E error_type \in ErrorTypes, callback \in Callbacks :
          RegisterCallback(error_type, callback)
    \/ ClearErrorCounts

-----------------------------------------------------------------------------
(* The specifications *)

\* the limiter alone, with an idle default cache beside it
Init ==
    /\ RLInit
    /\ CacheInit
    /\ disk_cache_dir
    /\ CollectorInit
    /\ session = FALSE
    /\ StoreInit({})

Next == RLNext

Spec == Init /\ [][Next]_vars

\* the cache alone, with an idle limiter beside it
CacheSpecInit ==
    /\ CacheInit
    /\ RLInit
    /\ calls_per_minute = 1
    /\ calls_per_day = 0
    /\ burst_size = 1
    /\ CollectorInit
    /\ session = FALSE
    /\ StoreInit({})

SpecCache == CacheSpecInit /\ [][CacheNext]_vars

\* a cache of every size up to MaxLruSize
LruSpecInit ==
    /\ CacheInitSized(LruKeys, LruSizes)
    /\ RLInit
    /\ calls_per_minute = 1
    /\ calls_per_day = 0
    /\ burst_size = 1
    /\ CollectorInit
    /\ session = FALSE
    /\ StoreInit({})

SpecLru == LruSpecInit /\ [][LruNext]_vars

\* the polling of the collector, over the cache main.py builds (both tiers)
PollInit ==
    /\ ClientLimiterInit(0)
    /\ CacheInitOver(CollectorKeys)
    /\ disk_cache_dir
    /\ CollectorInit
    /\ session = FALSE
    /\ StoreInit({})

SpecPolling == PollInit /\ [][PollNext]_vars

\* the event loop runs every task that is ready: a task a cancel() is
\* pending for gets its CancelledError
PollFairness == \A t \in Tasks : WF_tasks(T_Cancelled(t))

\* the collector after start_real_time_collection(symbol, provider_name)
\* has returned for one pair
PollStartedInit ==
    /\ ClientLimiterInit(0)
    /\ CacheInitOver(CollectorKeys)
    /\ disk_cache_dir
    /\ session = FALSE
    /\ StoreInit({})
    /\ collects = [c \in Calls |-> NoCall]
    /\ error_counts = [e \in ErrorTypes |-> 0]
    /\ error_info = NoErrorInfo
    /\ error_callbacks = [e \in ErrorTypes |-> "none"]
    /\ n_handled = 0
    /\ batch = NoBatch
    /\ \E pair \in PollPairs :
          /\ tasks = [t \in Tasks |->
                        IF t = 1 THEN [NoTask EXCEPT !.pc = "new",
                                                     !.provider = pair[1],
                                                     !.symbol = pair[2]]
                                 ELSE NoTask]
          /\ collection_tasks = [k \in TaskKeys |->
                                   IF k = TaskKey(pair[1], pair[2]) THEN 1
                                                                    ELSE 0]
          /\ p_pair = pair
    /\ p_op = "start"
    /\ p_result = "ok"
    /\ p_before = [k \in TaskKeys |-> 0]
    /\ p_cancelled = {}
    /\ n_poll_ops = 0

SpecPollingFair == PollStartedInit /\ [][PollNext]_vars /\ PollFairness

\* collect_data calls, over the cache main.py builds and the limiter of the
\* Alpha Vantage client, which earlier calls may have used up
CollectInit ==
    /\ \E used \in {0, ClientCallsPerMinute} : ClientLimiterInit(used)
    /\ CacheInitOver(CollectorKeys)
    /\ disk_cache_dir
    /\ CollectorInit
    /\ session \in BOOLEAN
    /\ StoreInit({})

SpecCollect == CollectInit /\ [][CollectNext]_vars

\* one collect_batch_data call, over the cache and the clients main.py builds
BatchInit ==
    /\ ClientLimiterInit(0)
    /\ CacheInitOver(CollectorKeys)
    /\ disk_cache_dir
    /\ CollectorInit
    /\ session = FALSE
    /\ StoreInit({})

SpecBatch == BatchInit /\ [][BatchNext]_vars

\* the event loop runs every task that can run, a task that waits for the
\* semaphore included once a permit is free, and every fetch of the remote
\* service returns or fails
BatchFairness ==
    /\ \A i \in Calls : WF_batch(\E fault \in BOOLEAN : B_Enter(i, fault))
    /\ \A i \in Calls :
          WF_batch(\E outcome \in {"ok", "APIError", "RateLimitError"},
                      valid \in BOOLEAN, out \in Transformed,
                      fault \in BOOLEAN :
                      B_FetchDone(i, outcome, valid, out, fault))
    /\ WF_batch(B_Return)

SpecBatchFair == BatchInit /\ [][BatchNext]_vars /\ BatchFairness

\* calls on a DataStore whose directory is empty or holds a foreign file
StoreSpecInit ==
    /\ ClientLimiterInit(0)
    /\ CacheInitOver(CollectorKeys)
    /\ disk_cache_dir
    /\ CollectorInit
    /\ session = FALSE
    /\ \E files \in SUBSET {ForeignFile} : StoreInit(files)

SpecStore == StoreSpecInit /\ [][StoreNext]_vars

\* the ErrorHandler alone
SpecErrors == BatchInit /\ [][ErrorNext]_vars

-----------------------------------------------------------------------------
(* Properties of the RateLimiter *)

\* the acquires granted in the `window` ticks that end now
GrantsWithin(window) == Len(Within(grant_log, now, window))

\* the limiter has its default burst size
DefaultBurst == burst_size = calls_per_minute

\* no refill token has been earned since construction
NoTokenEarnedYet == (now * calls_per_minute) \div Minute = 0

\* C1: with the default burst size and a day budget of at least
\* calls_per_minute, as long as no refill token has been earned the first
\* calls_per_minute acquire() calls succeed and every later one fails on the
\* minute bucket (RateLimitError).
C1_BurstThenReject ==
    (DefaultBurst /\ NoTokenEarnedYet
       /\ (calls_per_day = 0 \/ calls_per_day >= calls_per_minute))
    => /\ n_granted = Min(n_acquire, calls_per_minute)
       /\ (rl_op = "acquire" /\ n_acquire <= calls_per_minute
             => rl_result = "ok")
       /\ (rl_op = "acquire" /\ n_acquire > calls_per_minute
             => rl_result = "minute")

C1_Witness ==
    /\ DefaultBurst /\ NoTokenEarnedYet
    /\ calls_per_day = 0 \/ calls_per_day >= calls_per_minute
    /\ calls_per_minute = MaxRate
    /\ rl_op = "acquire"
    /\ n_acquire = calls_per_minute + 1
    /\ n_granted = calls_per_minute
    /\ rl_result = "minute"

\* C2 as claimed: with a day cap, no span shorter than 24 hours holds more
\* than calls_per_day successful acquires.
C2_Original ==
    calls_per_day # 0 => GrantsWithin(Day) <= calls_per_day

\* C2 as amended: with a day cap, at most calls_per_day acquires succeed
\* between two resets of the day bucket (the bucket is refilled in full by
\* the first acquire made 24 hours or more after the previous reset, the
\* first reset being the construction); once calls_per_day have succeeded,
\* an acquire made less than 24 hours after the reset fails, whatever the
\* minute bucket holds.
C2_DayCapPerResetWindow ==
    calls_per_day # 0
    => /\ day_granted <= calls_per_day
       /\ day_bucket = calls_per_day - day_granted
       /\ (day_granted = calls_per_day /\ now - last_day_refill < Day
             => AcquireOutcome \in {"minute", "day"})
       /\ (rl_op = "acquire" /\ rl_result = "ok" => day_granted >= 1)

C2_Witness ==
    /\ calls_per_day # 0
    /\ day_granted = calls_per_day
    /\ rl_op = "acquire"
    /\ rl_result = "day"
    /\ minute_bucket > 0

\* C3 as claimed: with the default burst size, no 60-second interval holds
\* more than calls_per_minute successful acquires.
C3_Original ==
    DefaultBurst => GrantsWithin(Minute) <= calls_per_minute

\* C3 as amended: the successful acquires of any 60-second interval never
\* exceed burst_size + calls_per_minute, which is 2 * calls_per_minute with
\* the default burst size (a full bucket plus one minute of refill).
C3_BurstPlusRate ==
    GrantsWithin(Minute) <= burst_size + calls_per_minute

C3_Witness ==
    /\ DefaultBurst
    /\ rl_op = "acquire" /\ rl_result = "ok"
    /\ GrantsWithin(Minute) = 2 * calls_per_minute

\* C4: every RateLimitError raised by acquire() carries retry_after > 0.
C4_RetryAfterPositive ==
    (rl_op = "acquire" /\ rl_result \in {"minute", "day"}) => retry_after > 0

\* C5: an acquire() made 60 seconds or more after an acquire() that failed
\* on the minute bucket, with no acquire() in between, does not fail on the
\* minute bucket: it succeeds unless the day budget is used up.
C5_SucceedsAfterAMinute ==
    (rl_op = "acquire" /\ since_fail >= Minute) => rl_result \in {"ok", "day"}

C5_Witness ==
    /\ rl_op = "acquire"
    /\ since_fail >= Minute
    /\ rl_result = "ok"

\* C6: release() never fails.
C6_ReleaseIsNoOp ==
    rl_op = "release" => rl_result = "ok"

\* C7: wait_if_needed makes at most two acquire() attempts and sleeps at most
\* once, for retry_after seconds, between them; after the second attempt the
\* call is over, and a second failure is raised to the caller; a call that is
\* not over can always take its next step.
C7_AtMostTwoAttempts ==
    /\ w_attempts <= 2
    /\ w_sleeps <= 1
    /\ (w_attempts = 2 => w_sleeps = 1 /\ w_pc = "done")
    /\ (w_pc = "retry" => w_attempts = 1 /\ w_sleeps = 1 /\ now >= w_wake)
    /\ (w_pc = "sleep" => w_attempts = 1 /\ w_sleeps = 0 /\ ENABLED W_Sleep)
    /\ (w_pc = "retry" => ENABLED W_Retry)
    /\ (w_pc = "done" /\ w_attempts = 2
          => (w_outcome = "raised") = (w_last # "ok"))
    /\ (w_pc = "done" /\ w_attempts = 1 => w_last = "ok" /\ w_sleeps = 0)

C7_Witness ==
    /\ w_pc = "done"
    /\ w_attempts = 2
    /\ w_sleeps = 1
    /\ w_last = "minute"
    /\ w_outcome = "raised"

\* C28: in every state the minute bucket holds between 0 and burst_size
\* tokens and, with a day cap, the day bucket holds between 0 and
\* calls_per_day tokens.
C28_TokensWithinCapacity ==
    /\ 0 <= minute_bucket /\ minute_bucket <= burst_size
    /\ calls_per_day # 0 => (0 <= day_bucket /\ day_bucket <= calls_per_day)

\* an acquire() made a day after the construction with tokens left:
\* both buckets are refilled to their capacity and no further, then one
\* token of each is consumed
C28_Witness ==
    /\ rl_op = "acquire" /\ rl_result = "ok"
    /\ calls_per_day # 0
    /\ now >= Day /\ last_day_refill >= Day /\ last_minute_refill >= Day
    /\ n_granted >= 2
    /\ minute_bucket = burst_size - 1
    /\ day_bucket = calls_per_day - 1

\* s is what is left of t after entries are dropped from its front
IsSuffix(s, t) ==
    /\ Len(s) <= Len(t)
    /\ \A i \in 1..Len(s) : s[i] = t[Len(t) - Len(s) + i]

\* s without its last entry
Front(s) == SubSeq(s, 1, Len(s) - 1)

\* the step is an acquire() call
IsAcquire == n_acquire' = n_acquire + 1

\* C29: an acquire() that succeeds takes exactly one token from the minute
\* bucket as the refill leaves it, and with a day cap exactly one from the
\* day bucket, and appends the current time to the call times of each
\* window it counts; an acquire() that fails takes no token and appends
\* nothing: the buckets can only have been refilled and the call times
\* only pruned from the front.
C29_AcquireEffect ==
    [][IsAcquire =>
         IF rl_result' = "ok"
         THEN /\ minute_bucket' + 1 >= minute_bucket
              /\ minute_bucket' + 1 <= burst_size
              /\ NewTokens <= 0 => minute_bucket' = minute_bucket - 1
              /\ minute_calls' # <<>>
              /\ minute_calls'[Len(minute_calls')] = now
              /\ IsSuffix(Front(minute_calls'), minute_calls)
              /\ calls_per_day # 0
                 => /\ day_bucket' = (IF DayResets THEN calls_per_day
                                                   ELSE day_bucket) - 1
                    /\ day_calls' # <<>>
                    /\ day_calls'[Len(day_calls')] = now
                    /\ IsSuffix(Front(day_calls'), day_calls)
              /\ calls_per_day = 0
                 => day_bucket' = day_bucket /\ day_calls' = day_calls
         ELSE /\ minute_bucket' >= minute_bucket
              /\ day_bucket' >= day_bucket
              /\ IsSuffix(minute_calls', minute_calls)
              /\ IsSuffix(day_calls', day_calls)
              /\ n_granted' = n_granted
      ]_vars

\* an acquire() has succeeded with a day cap, after another one, and then
\* one has failed
C29_Witness ==
    /\ rl_op = "acquire" /\ rl_result \in {"minute", "day"}
    /\ calls_per_day # 0
    /\ Len(minute_calls) >= 2
    /\ Len(day_calls) >= 2

\* the acquires granted at the time t
GrantsAt(t) == Len(SelectSeq(grant_log, LAMBDA x : x = t))

\* C30: acquire() calls issued together never get more tokens than there
\* are: a call that finds k > 0 tokens and earns none leaves k - 1, a call
\* that finds none and earns none fails, no call is granted twice, and the
\* bucket never goes below zero, so of any number of calls made with k
\* tokens and no refill at most k succeed.
C30_NoOverGrant ==
    [][(IsAcquire /\ NewTokens <= 0)
         => /\ n_granted' - n_granted \in {0, 1}
            /\ minute_bucket' = minute_bucket - (n_granted' - n_granted)
            /\ minute_bucket <= 0 => n_granted' = n_granted
            /\ minute_bucket' >= 0
            /\ GrantsAt(now)' + minute_bucket' <= burst_size
      ]_vars

\* three acquire() calls were made at one time with two tokens in the
\* bucket: two succeeded and the last one failed
C30_Witness ==
    /\ rl_op = "acquire" /\ rl_result = "minute"
    /\ n_acquire = 3
    /\ GrantsAt(now) = 2
    /\ minute_bucket = 0

\* the step is an acquire() made exactly retry_after seconds after an
\* acquire() that failed on the minute bucket, no acquire() in between
IsRetryAfterWait ==
    /\ IsAcquire
    /\ minute_fail_at >= 0
    /\ retry_after >= 0
    /\ now = minute_fail_at + retry_after * TicksPerSecond

\* C31: an acquire() issued retry_after seconds after an acquire() that
\* failed on the minute bucket, with no acquire() in between, succeeds; so
\* the retry of a wait_if_needed() that nobody else interleaves with
\* succeeds.
C31_RetryAfterSufficient ==
    [][IsRetryAfterWait => rl_result' = "ok"]_vars

-----------------------------------------------------------------------------
(* Properties of the CacheManager *)

CacheCalls == {"get", "set", "delete", "clear"}

\* C8: when a key was written by set(k, v, ttl) with both tiers configured,
\* its ttl has not elapsed and the key is no longer live in the memory tier,
\* a get(k) whose disk read does not fail returns v (as it reads back from
\* JSON) and increments disk_hits; and the get(k) that follows a get(k)
\* served from the disk tier increments memory_hits alone.
C8_Promotion ==
    /\ (c_op = "get" /\ disk_cache_dir /\ ~c_faulted /\ ~c_was_in_memory
          /\ written[c_key].kind = "set" /\ ~TtlElapsed(written[c_key]))
       => /\ c_result = JsonRoundTrip(written[c_key].value)
          /\ "disk_hits" \in c_delta
    /\ (c_op = "get" /\ c_after_promotion) => c_delta = {"memory_hits"}

\* C9: with both tiers configured, a get(k) made after the ttl of the latest
\* set(k, v, ttl) has elapsed returns absent and leaves no disk record for k.
C9_TtlExpiry ==
    (c_op = "get" /\ disk_cache_dir /\ written[c_key].kind = "set"
       /\ TtlElapsed(written[c_key]))
    => /\ c_result = "None"
       /\ disk_files[c_key] = NoFile

\* C10: a cache call during which the disk tier fails ends in a CacheError
\* that names the call; a failing read in get() is not reported as a miss.
C10_DiskFailureSurfaced ==
    (c_op \in CacheCalls /\ c_faulted)
    => /\ c_result = "CacheError"
       /\ c_error_op = c_op

\* C11: once clear() has returned, a key that was in the cache before it and
\* has not been written since is in neither tier, whatever get, set and
\* delete calls of other tasks come before or after the clear: no get
\* promotes a value from before the clear and no set that began before it
\* completes after it.
C11_ClearLeavesNothing ==
    \A k \in DOMAIN written :
        written[k].kind = "cleared"
        => /\ k \notin MemKeys(memory_cache)
           /\ disk_files[k] = NoFile

\* a key held in both tiers is cleared and a get of it follows
C11_Witness ==
    /\ disk_cache_dir
    /\ c_op = "get"
    /\ written[c_key].kind = "cleared"
    /\ written[c_key].held
    /\ c_result = "None"
    /\ "disk_misses" \in c_delta

StatFields == {"memory_hits", "memory_misses", "disk_hits", "disk_misses"}

\* what the step adds to a counter
Rise(f) == stats'[f] - stats[f]

\* the step is a get() call
IsGet == n_cache_ops' = n_cache_ops + 1 /\ c_op' = "get"

\* C32: every get() raises exactly one of memory_hits and memory_misses by
\* one; with a disk tier a get() that raises memory_misses raises exactly
\* one of disk_hits and disk_misses, and a get() that raises memory_hits
\* raises neither, so that memory_misses = disk_hits + disk_misses in every
\* state (a get() is one step: none is ever in progress); no step lowers a
\* counter, and no other call changes one.
C32_StatsAccounting ==
    /\ [](disk_cache_dir
            => stats.memory_misses = stats.disk_hits + stats.disk_misses)
    /\ [][LET memory == Rise("memory_hits") + Rise("memory_misses")
              disk == Rise("disk_hits") + Rise("disk_misses")
          IN  /\ \A f \in StatFields : Rise(f) \in {0, 1}
              /\ IsGet => memory = 1
              /\ (IsGet /\ Rise("memory_hits") = 1) => disk = 0
              /\ (IsGet /\ Rise("memory_misses") = 1 /\ disk_cache_dir)
                 => disk = 1
              /\ ~IsGet => stats' = stats
         ]_vars

\* a get() served from the disk tier and a get() that missed both tiers
C32_Witness ==
    /\ disk_cache_dir
    /\ c_op = "get"
    /\ stats.memory_misses = 2
    /\ stats.disk_hits = 1
    /\ stats.disk_misses = 1

\* C33: the memory tier never holds more entries than memory_cache_size;
\* when a key that is not in a full memory tier is put there, by set() or
\* by the promotion of get(), the least recently used entry is the one that
\* goes and the others stay.
C33_MemoryBounded ==
    /\ [](Len(memory_cache) <= memory_cache_size)
    /\ [][LET live == MemExpire(memory_cache)
          IN  (/\ n_cache_ops' = n_cache_ops + 1
               /\ Len(live) = memory_cache_size
               /\ c_key' \notin MemKeys(live)
               /\ c_key' \in MemKeys(memory_cache'))
              => /\ MemKeys(memory_cache')
                      = (MemKeys(live) \ {Head(live).key}) \cup {c_key'}
                 /\ Len(memory_cache') = memory_cache_size
         ]_vars

\* key 1 was set before key 2 and read after it; when key 3 was set into the
\* full memory tier, key 2 went and key 1 stayed
C33_Witness ==
    /\ memory_cache_size = 2
    /\ c_op = "set" /\ c_key = 3
    /\ written[1].kind = "set" /\ written[2].kind = "set"
    /\ written[1].at < written[2].at
    /\ now < MemoryTtl * TicksPerSecond
    /\ MemKeys(memory_cache) = {1, 3}

-----------------------------------------------------------------------------
(* Properties of the DataCollector: real-time polling *)

\* the tasks that poll a pair: created, not ended and not cancelled
Polling(pair) ==
    {t \in Tasks : /\ tasks[t].pc \notin {"none", "done"}
                   /\ ~tasks[t].must_cancel
                   /\ tasks[t].provider = pair[1]
                   /\ tasks[t].symbol = pair[2]}

\* the task registered under the key of the last start or stop when that
\* call began, 0 if none
TaskBefore == p_before[TaskKey(p_pair[1], p_pair[2])]

\* the pair of the last start or stop was running when the call began
WasRunning ==
    /\ TaskBefore # 0
    /\ tasks[TaskBefore].provider = p_pair[1]
    /\ tasks[TaskBefore].symbol = p_pair[2]

\* C12: at any time at most one task polls a given (provider, symbol) pair;
\* a start_real_time_collection for a pair that is running raises
\* DataCollectionError ("Collection already running"), changes nothing in
\* the registry and leaves the registered task polling.
C12_OneTaskPerPair ==
    /\ \A pair \in PollPairs : Cardinality(Polling(pair)) <= 1
    /\ (p_op = "start" /\ WasRunning)
       => /\ p_result = "DataCollectionError"
          /\ collection_tasks = p_before
          /\ TaskBefore \in Polling(p_pair)

\* a second start of the pair right after the first, whose task has not
\* run yet
C12_Witness ==
    /\ p_op = "start"
    /\ n_poll_ops = 2
    /\ WasRunning
    /\ tasks[TaskBefore].pc = "new"
    /\ p_result = "DataCollectionError"

\* C13: stop_real_time_collection never raises; for a running pair it
\* cancels the pair's task and removes it from the registry; for an idle
\* pair it changes nothing: the registry is as before and no task is
\* cancelled.
C13_StopIsIdempotent ==
    p_op = "stop"
    => /\ p_result = "ok"
       /\ WasRunning
          => /\ collection_tasks[TaskKey(p_pair[1], p_pair[2])] = 0
             /\ tasks[TaskBefore].must_cancel
       /\ ~WasRunning
          => /\ collection_tasks = p_before
             /\ p_cancelled = {}

\* C14: when cleanup() has returned, every task that was registered is
\* cancelled, the registry is empty and neither tier of the cache holds an
\* entry.
C14_CleanupLeavesNothing ==
    (p_op = "cleanup" /\ p_result = "ok")
    => /\ GetActiveCollections = {}
       /\ \A k \in TaskKeys : p_before[k] # 0 => tasks[p_before[k]].must_cancel
       /\ memory_cache = <<>>
       /\ \A k \in DOMAIN disk_files : disk_files[k] = NoFile

\* a cleanup of a collector with a registered task and a stored sample
C14_Witness ==
    /\ p_op = "cleanup"
    /\ p_result = "ok"
    /\ \E k \in TaskKeys : p_before[k] # 0
    /\ \E k \in DOMAIN written : written[k].kind = "cleared" /\ written[k].held

\* C15: a polling loop ends only by cancellation.  After an iteration that
\* failed (unknown provider, provider error, cache store error) the task,
\* unless it was cancelled since, is still registered and is either asleep
\* until its next iteration or in a later one.
C15_FailureKeepsLoopRunning ==
    \A t \in Tasks :
        /\ tasks[t].pc = "done" => tasks[t].must_cancel
        /\ (tasks[t].last = "error" /\ ~tasks[t].must_cancel)
           => /\ tasks[t].pc \in {"sleep", "fetch"}
              /\ collection_tasks[TaskKey(tasks[t].provider,
                                          tasks[t].symbol)] = t

\* a task in its second iteration, the first having failed
C15_Witness ==
    \E t \in Tasks :
        /\ tasks[t].last = "error"
        /\ tasks[t].iterations = 2
        /\ tasks[t].pc = "fetch"
        /\ ~tasks[t].must_cancel

\* C16: no polling task ends while its get_real_time_data is in flight: a
\* fetch under way when the task is cancelled runs to its end and the loop
\* stops at the sleep that follows.
C16_FetchNotAborted == \A t \in Tasks : ~tasks[t].aborted

\* the step begins an iteration of the task t
BeginsIteration(t) == tasks'[t].iterations # tasks[t].iterations

\* the step ends an iteration of the task t: its fetch is over, or the
\* iteration failed before it got to the fetch
EndsIteration(t) ==
    /\ tasks'[t].pc = "sleep"
    /\ tasks[t].pc = "fetch" \/ BeginsIteration(t)

\* C34: an iteration of a polling task begins only when the task is new or
\* the sleep of its previous iteration is over, and makes one call of
\* get_real_time_data at most (exactly one when the provider is registered
\* and has the method); when the call and the cache write succeed, the value
\* is in the cache under the realtime key of that moment with a ttl of
\* 2 * interval; and however the iteration ends, with success or failure,
\* the task then sleeps for interval.
C34_IterationCadence ==
    [][\A t \in Tasks :
         LET task == tasks[t]
             after == tasks'[t]
             kind == Resolve(task.provider)
             cache_key == RealtimeKey(TaskKey(task.provider, task.symbol), now)
         IN
         /\ BeginsIteration(t)
            => /\ after.iterations = task.iterations + 1
               /\ task.pc \in {"new", "sleep"}
               /\ task.pc = "sleep" => now >= task.wake
               /\ (after.pc = "fetch")
                     = (kind # "None" /\ HasRealTimeData(kind))
         /\ (task.pc # "fetch" /\ after.pc = "fetch") => BeginsIteration(t)
         /\ (EndsIteration(t) /\ after.last = "ok")
            => written'[cache_key]
                  = [kind |-> "set", value |-> RealTimeData(kind),
                     at |-> now, ttl |-> 2 * PollInterval]
         /\ EndsIteration(t)
            => after.wake = now + PollInterval * TicksPerSecond
      ]_vars

\* a task in its second iteration, the first having stored its value
C34_Witness ==
    \E t \in Tasks :
        /\ tasks[t].last = "ok"
        /\ tasks[t].iterations = 2
        /\ tasks[t].pc = "fetch"
        /\ now >= tasks[t].wake
        /\ written[RealtimeKey(TaskKey(tasks[t].provider, tasks[t].symbol), 0)]
              .kind = "set"

\* C39: a start_real_time_collection for a pair that is not running
\* succeeds, whatever other pairs are running: it raises nothing and
\* registers a new task for the pair.
C39_PairsIndependent ==
    (p_op = "start" /\ ~WasRunning)
    => /\ p_result = "ok"
       /\ collection_tasks[TaskKey(p_pair[1], p_pair[2])] \in Polling(p_pair)

\* C40: a task that stop_real_time_collection or cleanup has cancelled
\* stays cancelled and stays where it was suspended until it ends: it
\* begins no iteration (so it calls no get_real_time_data) and completes
\* none (so it writes nothing to the cache), whatever is started or stopped
\* meanwhile; and it does end.
C40_CancelledTaskStops ==
    /\ [][\A t \in Tasks :
            tasks[t].must_cancel
            => /\ tasks'[t].must_cancel
               /\ tasks'[t].iterations = tasks[t].iterations
               /\ tasks'[t].last = tasks[t].last
               /\ tasks'[t].pc \in {tasks[t].pc, "done"}
         ]_vars
    /\ \A t \in Tasks : tasks[t].must_cancel ~> tasks[t].pc = "done"

\* a task was cancelled during its fetch and has ended, and the task that
\* a new start of the same pair created is fetching
C40_Witness ==
    \E t, u \in Tasks :
        /\ t # u
        /\ tasks[t].must_cancel /\ tasks[t].pc = "done"
        /\ tasks[t].iterations = 1 /\ tasks[t].last = "none"
        /\ tasks[u].provider = tasks[t].provider
        /\ tasks[u].symbol = tasks[t].symbol
        /\ ~tasks[u].must_cancel /\ tasks[u].pc = "fetch"

-----------------------------------------------------------------------------
(* Properties of the DataCollector: collect_data *)

C18_UnknownProvider ==
    \A c \in Calls :
        (collects[c].pc # "idle" /\ collects[c].result # "hit"
            /\ collects[c].provider \notin DOMAIN providers)
        => /\ collects[c].pc = "done"
           /\ collects[c].result = "DataCollectionError"
           /\ collects[c].message = "Unknown provider"
           /\ collects[c].requested = 0
           /\ collects[c].validated = "none"
           /\ collects[c].transforms = 0
           /\ collects[c].stores = 0
           /\ ~collects[c].changed

\* a call with use_cache for an unregistered provider, over a cache that
\* holds a value stored by an earlier call
C18_Witness ==
    \E c \in Calls :
        /\ collects[c].pc = "done"
        /\ collects[c].use_cache
        /\ collects[c].provider \notin DOMAIN providers
        /\ collects[c].result = "DataCollectionError"
        /\ memory_cache # <<>>

\* C19: a collect_data call to one of the two provider clients makes a
\* request to the remote service only after an acquire() of that client's
\* limiter has succeeded, makes at most one request, and when the acquire()
\* raises RateLimitError the call raises that RateLimitError.
C19_AcquireBeforeFetch ==
    \A c \in Calls :
        Resolve(collects[c].provider)
            \in {"YahooFinanceClient", "AlphaVantageClient"}
        => /\ collects[c].requested <= 1
           /\ collects[c].requested = 1 => collects[c].acquired = "ok"
           /\ (collects[c].acquired = "RateLimitError"
                 /\ collects[c].pc = "done")
              => collects[c].result = "RateLimitError"

\* C20: a collect_data call whose validate_response returns False raises
\* DataCollectionError ("Invalid response from provider") without calling
\* transform_data or the cache's set; and a call that raises leaves the
\* cache contents as they were.
C20_FailureLeavesCache ==
    \A c \in Calls :
        /\ collects[c].validated = "false"
           => /\ collects[c].result = "DataCollectionError"
              /\ collects[c].message = "Invalid response from provider"
              /\ collects[c].transforms = 0
              /\ collects[c].stores = 0
        /\ (collects[c].pc = "done" /\ collects[c].result \notin {"hit", "ok"})
           => ~collects[c].changed

\* the calls that have missed the cache for the key and are waiting for
\* the provider's fetch_data
FetchingMissed(cache_key) ==
    {c \in Calls : /\ collects[c].pc = "fetch"
                   /\ collects[c].use_cache
                   /\ collects[c].cache_key = cache_key}

\* C35: collect_data has no single-flight: a call that looks its key up
\* and finds nothing usable goes on to the fetch_data of its provider (a
\* registered one without a limiter of its own), whether or not other calls
\* are fetching the same key.
C35_NoSingleFlight ==
    [][\A c \in Calls :
         (/\ collects[c].pc = "idle" /\ collects'[c].pc # "idle"
          /\ collects'[c].use_cache
          /\ c_result' \in {"None", "empty"}
          /\ Resolve(collects'[c].provider)
                \in {"YahooFinanceClient", "DataProvider"})
         => /\ collects'[c].pc = "fetch"
            /\ collects'[c].requested = 1
            /\ \A d \in Calls \ {c} : collects'[d] = collects[d]
      ]_vars

\* two calls with the same arguments have both missed the cache and both
\* fetches are in flight
C35_Witness ==
    \E c, d \in Calls :
        /\ c # d
        /\ {c, d} \subseteq FetchingMissed(collects[c].cache_key)
        /\ collects[c].symbol = collects[d].symbol
        /\ collects[c].provider = collects[d].provider
        /\ collects[c].requested = 1 /\ collects[d].requested = 1
        /\ written[collects[c].cache_key].kind = "none"

-----------------------------------------------------------------------------
(* Properties of the error handling *)

\* the collect_data calls that ended by raising `error_type`
FailedWith(error_type) ==
    {c \in Calls : collects[c].pc = "done" /\ collects[c].result = error_type}

\* C21: every collect_data call that fails is counted exactly once by
\* handle_error under the type of its error (the counter of each type is
\* the number of calls that raised an error of that type), handle_error is
\* given the call's {symbol, provider, start_date, end_date}, and the call
\* raises the error it met, also when handle_error fails internally.
C21_FailureClassifiedOnce ==
    /\ \A e \in ErrorTypes : error_counts[e] = Cardinality(FailedWith(e))
    /\ error_info # NoErrorInfo
       => \E c \in Calls :
             IF error_info.error_type = "ErrorHandlerError"
             THEN c \in FailedWith(error_info.original_error)
             ELSE /\ c \in FailedWith(error_info.error_type)
                  /\ error_info.context = Context(collects[c])

\* two calls failed with the same type of error, the later one in a
\* handle_error that failed internally
C21_Witness ==
    /\ error_info.error_type = "ErrorHandlerError"
    /\ Cardinality(FailedWith(error_info.original_error)) = 2
    /\ error_counts[error_info.original_error] = 2

-----------------------------------------------------------------------------
(* Properties of collect_batch_data *)

\* the position of the last task of the batch for the symbol of task i
LastTaskFor(i) ==
    CHOOSE j \in 1..Len(batch.symbols) :
        /\ batch.symbols[j] = batch.symbols[i]
        /\ \A k \in 1..Len(batch.symbols) :
              batch.symbols[k] = batch.symbols[i] => k <= j

\* the position of the first task of the batch for `symbol`
FirstTaskFor(symbol) ==
    CHOOSE j \in 1..Len(batch.symbols) :
        /\ batch.symbols[j] = symbol
        /\ \A k \in 1..Len(batch.symbols) :
              batch.symbols[k] = symbol => j <= k

\* the entries the batch returned for `symbol`
EntriesFor(symbol) ==
    {j \in 1..Len(batch.processed_results) :
        batch.processed_results[j].symbol = symbol}

\* the collect_data pipelines of the batch that are in progress
InProgress == {i \in 1..Len(batch.symbols) : collects[i].pc = "fetch"}

\* C22: a collect_batch_data call never raises because a symbol's fetch
\* failed, no task is left unfinished because another one failed, and the
\* mapping it returns has, for every symbol, {success: False, error} when
\* the fetch for the symbol failed and {success: True, data} otherwise (for
\* a symbol given twice, the later fetch is the one reported).
C22_BatchIsolation ==
    /\ batch.raised = "none"
    /\ batch.pc = "done"
       => \A i \in 1..Len(batch.symbols) :
             /\ collects[i].pc = "done"
             /\ \A j \in EntriesFor(batch.symbols[i]) :
                   LET entry == batch.processed_results[j]
                       call == collects[LastTaskFor(i)]
                   IN
                   IF call.result \in ErrorTypes
                   THEN ~entry.success /\ entry.error = call.result
                   ELSE entry.success /\ entry.data = call.value
                        /\ call.result \in {"hit", "ok"}

\* a batch of two symbols that returned a failure for the first, which
\* ended first, and data for the second
C22_Witness ==
    /\ batch.pc = "done"
    /\ Len(batch.processed_results) = 2
    /\ ~batch.processed_results[1].success
    /\ batch.processed_results[2].success
    /\ batch.finished = <<1, 2>>

\* C23: while a collect_batch_data call runs, the number of its
\* collect_data pipelines in progress never exceeds max_concurrent.
C23_BoundedConcurrency ==
    /\ Cardinality(InProgress) <= batch.max_concurrent
    /\ batch.peak <= batch.max_concurrent

\* max_concurrent pipelines are in progress and a further task waits for
\* the semaphore
C23_Witness ==
    /\ batch.pc = "gather"
    /\ Cardinality(InProgress) = batch.max_concurrent
    /\ \E i \in 1..Len(batch.symbols) : collects[i].pc = "idle"

\* C24: when collect_batch_data has returned, every task of the batch has
\* ended, and the mapping returned has exactly one entry for each symbol of
\* the input list and no other, in the order in which the symbols first
\* appear in the list, whatever the order in which the tasks ended.
C24_OneEntryPerSymbolInOrder ==
    batch.pc = "done"
    => /\ \A i \in 1..Len(batch.symbols) :
             /\ collects[i].pc = "done"
             /\ Cardinality(EntriesFor(batch.symbols[i])) = 1
       /\ \A j \in 1..Len(batch.processed_results) :
             \E i \in 1..Len(batch.symbols) :
                batch.symbols[i] = batch.processed_results[j].symbol
       /\ \A j, k \in 1..Len(batch.processed_results) :
             j < k => FirstTaskFor(batch.processed_results[j].symbol)
                      < FirstTaskFor(batch.processed_results[k].symbol)

\* a batch of two distinct symbols has returned, and the task of the
\* second symbol ended before that of the first
C24_Witness ==
    /\ batch.pc = "done"
    /\ Len(batch.symbols) = 2
    /\ batch.symbols[1] # batch.symbols[2]
    /\ batch.finished = <<2, 1>>
    /\ Len(batch.processed_results) = 2

-----------------------------------------------------------------------------
(* Properties of the cache key *)

\* the (provider, symbol, start, end) of a call
KeyInputs(call) ==
    <<call.provider, call.symbol, call.start_date, call.end_date>>

\* C25: two collect_data calls build the same cache key exactly when they
\* are given the same (provider, symbol, start, end).
C25_KeyStableAndUnique ==
    \A c, d \in Calls :
        (collects[c].pc # "idle" /\ collects[d].pc # "idle")
        => (collects[c].cache_key = collects[d].cache_key
               <=> KeyInputs(collects[c]) = KeyInputs(collects[d]))

-----------------------------------------------------------------------------
(* Properties of the DataStore *)

\* the calls inside the write section of `symbol`
Writers(symbol) ==
    {t \in StoreTasks : store.calls[t].pc = "write"
                        /\ store.calls[t].symbol = symbol}

\* C26: at every moment at most one call of store_market_data,
\* update_market_data, delete_market_data and cleanup_old_data is inside
\* the write section of a given symbol, and the call inside it holds the
\* one lock of that symbol.
C26_OneWriterPerSymbol ==
    \A symbol \in StoreSymbols :
        /\ Cardinality(Writers(symbol)) <= 1
        /\ \A t \in Writers(symbol) : store.locks[symbol].holder = t

\* a call is inside the write section of a symbol while another call for
\* the same symbol, of another operation, waits for the lock
C26_Witness ==
    \E t, u \in StoreTasks :
        /\ store.calls[t].pc = "write"
        /\ store.calls[u].pc = "wait"
        /\ store.calls[u].symbol = store.calls[t].symbol
        /\ store.calls[u].op # store.calls[t].op

\* task i of the batch has had its permit of the semaphore
HasPermit(i) ==
    \/ i \in batch.inside
    \/ \E j \in 1..Len(batch.finished) : batch.finished[j] = i

\* C38: when every fetch of the remote service returns or fails, a
\* collect_batch_data call, whatever symbol list and whatever value of
\* max_concurrent the semaphore takes it was given, gets every task of a
\* symbol through the semaphore and returns.
C38_BatchTerminates ==
    /\ \A i \in Calls :
          (batch.pc = "gather" /\ i \in 1..Len(batch.symbols)) ~> HasPermit(i)
    /\ (batch.pc = "gather") ~> (batch.pc = "done")

\* a call whose semaphore has a permit gets every task through it and
\* returns
BatchTerminatesWithPermit ==
    /\ \A i \in Calls :
          (/\ batch.pc = "gather"
           /\ batch.max_concurrent > 0
           /\ i \in 1..Len(batch.symbols)) ~> HasPermit(i)
    /\ (batch.pc = "gather" /\ batch.max_concurrent > 0)
          ~> (batch.pc = "done")

\* a call got a semaphore without a permit and a symbol: no task is ever
\* through
BatchStuck ==
    /\ batch.pc = "gather"
    /\ batch.max_concurrent = 0
    /\ Len(batch.symbols) > 0

-----------------------------------------------------------------------------
(* Properties of the ErrorHandler *)

\* C27: the record handle_error builds for an error has the category of
\* the error's kind and that kind's attachments: api_error with status_code
\* and response for an APIError, validation_error with validation_errors
\* for a ValidationError, rate_limit_error with retry_after for a
\* RateLimitError, generic_error with nothing more for any other.
C27_ClassifiedByKind ==
    error_info.error_type \in ErrorTypes
    => CASE error_info.error_type = "APIError" ->
              /\ error_info.category = "api_error"
              /\ error_info.attached = {"status_code", "response"}
         [] error_info.error_type = "ValidationError" ->
              /\ error_info.category = "validation_error"
              /\ error_info.attached = {"validation_errors"}
         [] error_info.error_type = "RateLimitError" ->
              /\ error_info.category = "rate_limit_error"
              /\ error_info.attached = {"retry_after"}
         [] OTHER ->
              /\ error_info.category = "generic_error"
              /\ error_info.attached = {}

\* a step is a handle_error call
IsHandleError == n_handled' = n_handled + 1

\* the type of the error the call that returned `info` was given
HandledType(info) ==
    IF info.error_type = "ErrorHandlerError" THEN info.original_error
    ELSE info.error_type

\* the counts are all zero
NoCounts == [e \in ErrorTypes |-> 0]

\* C36: a handle_error call raises the count of the error's type by
\* exactly 1 and leaves every other count as it was; the counts change in
\* no other way than by clear_error_counts, which empties them; and the
\* total_errors of get_error_stats is the sum of the counts per type.
C36_CountersMonotonic ==
    /\ [](GetErrorStats.total_errors =
             error_counts["DataCollectionError"] + error_counts["APIError"]
             + error_counts["RateLimitError"]
             + error_counts["ValidationError"] + error_counts["CacheError"]
             + error_counts["AttributeError"])
    /\ [][/\ IsHandleError
             => \A e \in ErrorTypes :
                   error_counts'[e] =
                      IF e = HandledType(error_info') THEN error_counts[e] + 1
                      ELSE error_counts[e]
          /\ ~IsHandleError /\ error_counts' # error_counts
             => error_counts' = NoCounts]_vars

\* two errors of one type and one of another have been handled since the
\* counts were last emptied
C36_Witness ==
    /\ n_handled = MaxErrors
    /\ \E e, f \in ErrorTypes :
          /\ e # f
          /\ error_counts[e] = 2
          /\ error_counts[f] = 1
    /\ GetErrorStats.total_errors = MaxErrors

\* C37: when handle_error classifies an error of a type that has a
\* callback, the callback is invoked once in that call, with the record
\* already classified and the occurrence already counted; whether the
\* callback returns or raises, handle_error returns the classification
\* record of the error; no callback is invoked for a type without one.
C37_CallbackOncePerError ==
    [][IsHandleError /\ error_info'.error_type \in ErrorTypes
       => LET e == error_info'.error_type
          IN  /\ error_info'.category = Category(e)
              /\ error_info'.attached = Attached(e)
              /\ error_info'.original_error = "none"
              /\ IF error_callbacks[e] = "none"
                 THEN /\ error_info'.invoked = 0
                      /\ error_info'.callback = "none"
                 ELSE /\ error_info'.invoked = 1
                      /\ error_info'.callback =
                            IF error_callbacks[e] = "coroutine"
                            THEN "returned" ELSE "raised"
                      /\ error_info'.callback_saw =
                            [category |-> Category(e),
                             count |-> error_counts[e] + 1]]_vars

\* a second error of a type whose callback raises has been handled, and
\* its classification record returned
C37_Witness ==
    /\ error_info.error_type \in ErrorTypes
    /\ error_info.callback = "raised"
    /\ error_info.invoked = 1
    /\ error_info.callback_saw.count = 2
    /\ error_info.category = Category(error_info.error_type)

====
